---- MODULE Spec2Model ----
(***************************************************************************)
(* A model of discover.py: the regex classification pass over the project  *)
(* tree, the business-rule method classifier (AST inspection with a text   *)
(* fallback) and the per-class metrics pass that uses it.                  *)
(***************************************************************************)
EXTENDS Integers, Sequences, FiniteSets, TLC

VARIABLES
    HAS_JAVALANG,           \* module flag set by the import at lines 16-20
    HAS_OPENPYXL,           \* module flag set by the import at lines 9-14
    tree,                   \* the project tree: the files os.walk yields, in order
    \* --- the classifier applied to one method node ---
    method_node,            \* the argument of is_business_rule_method
    verdict,                \* "pending" | "true" | "false" | "raise"
    tree_outcome,           \* what the AST inspection did: "skipped" | "true" | "false" | "fault"
    text_outcome,           \* what the string fallback did: "skipped" | "true" | "false" | "raise"
    \* --- run_analysis: the classification pass ---
    phase,                  \* where the run is
    walk_pos,               \* index in tree of the next file of the walk at line 133
    entity_classes,         \* dict: file path -> entity patterns found
    business_components,    \* dict: file path -> business patterns found
    jsf_pages,              \* list of file paths
    analysis_log,           \* the log, one entry per appended line
    \* --- analyze_business_rules and analyze_java_file_ast ---
    file_pos,               \* index in tree of the next file of the walk at line 340
    type_pos,               \* index of the next type declaration of the file (line 283)
    method_pos,             \* index of the next method of the type (line 291)
    method,                 \* the loop variable of line 291
    metrics_list,           \* records built for the current file
    public_methods,         \* counters of the current type, lines 287-289
    business_methods,
    business_method_names,
    all_metrics,            \* the three lists of lines 335-337
    controllers,
    services,
    business_rules_metrics, \* the dict returned at line 370, {} before
    \* --- capture_database_info ---
    db_pos,                 \* index in tree of the next file of the walk at line 100
    db_info_list,           \* the local list of line 97
    db_info_placeholder,    \* the global text of line 65
    \* --- the reports, lines 1405-1408 ---
    report_content,         \* the markdown text returned by generate_markdown_report
    excel_filename,         \* what generate_excel_report returned
    workbook,               \* the saved spreadsheet
    md_file,                \* the markdown file on disk
    html_file,              \* the html file on disk
    console,                \* what was printed, one entry per message
    \* --- the script, lines 1375-1408 ---
    argv,                   \* what sys.argv[1] names, "none" when it is absent
    exit_status,            \* the status of the process, read once phase = "exit"
    output_folder,          \* the directory <project>/output exists
    run,                    \* 1 for the first run on the tree, 2 for the second
    first_report            \* the markdown text of the first run

classifier_vars == <<method_node, verdict, tree_outcome, text_outcome>>
pass_vars == <<walk_pos, entity_classes, business_components, jsf_pages>>
type_vars == <<public_methods, business_methods, business_method_names>>
list_vars == <<all_metrics, controllers, services>>
metrics_vars ==
    <<file_pos, type_pos, method_pos, method, metrics_list, type_vars, list_vars,
      business_rules_metrics>>
db_vars == <<db_pos, db_info_list, db_info_placeholder>>
report_vars == <<report_content, excel_filename, workbook, md_file, html_file, console>>
main_vars == <<argv, exit_status, output_folder, run, first_report>>
vars ==
    <<HAS_JAVALANG, HAS_OPENPYXL, tree, method_node, verdict, tree_outcome, text_outcome,
      phase, walk_pos, entity_classes, business_components, jsf_pages, analysis_log,
      metrics_vars, db_vars, report_vars, main_vars>>


(***************************************************************************)
(* Bounds of the model.                                                    *)
(***************************************************************************)
MaxBody == 4        \* statements in a method body
MaxLines == 2       \* lines in the text rendering of a body
MaxFiles == 2       \* files in the project tree
MaxWords == 3       \* words in a class name
MaxProject == 1     \* files of the project next to its output folder

(***************************************************************************)
(* Strings are sequences of characters, so that startswith is computed.    *)
(***************************************************************************)
startswith(s, prefix) ==
    /\ Len(s) >= Len(prefix)
    /\ SubSeq(s, 1, Len(prefix)) = prefix

Str_get == <<"g", "e", "t">>
Str_set == <<"s", "e", "t">>
Str_is == <<"i", "s">>

\* Method names: accessors, names that only look like accessors, and others.
Name_getId == <<"g", "e", "t", "I", "d">>
Name_setId == <<"s", "e", "t", "I", "d">>
Name_isOpen == <<"i", "s", "O", "p", "e", "n">>
Name_issue == <<"i", "s", "s", "u", "e">>
Name_reset == <<"r", "e", "s", "e", "t">>
Name_save == <<"s", "a", "v", "e">>
Name_computeTotals ==
    <<"c", "o", "m", "p", "u", "t", "e", "T", "o", "t", "a", "l", "s">>

MethodNames ==
    {Name_getId, Name_setId, Name_isOpen, Name_issue, Name_reset, Name_save,
     Name_computeTotals}

(***************************************************************************)
(* Statements of a parsed body: the javalang.tree class of the statement   *)
(* and the classes of the statements nested directly inside it.            *)
(***************************************************************************)
Stmt(k) == [kind |-> k, nested |-> <<>>]
BlockWith(k) == [kind |-> "BlockStatement", nested |-> <<k>>]

ControlKinds ==
    {"IfStatement", "WhileStatement", "ForStatement", "DoStatement", "SwitchStatement",
     "TryStatement"}

StmtKinds ==
    ControlKinds \cup
    {"ThrowStatement", "LocalVariableDeclaration", "ReturnStatement", "StatementExpression"}

Statements == {Stmt(k) : k \in StmtKinds} \cup {BlockWith("IfStatement")}

(***************************************************************************)
(* The text str(method_node.body) yields: its length and its lines.  A     *)
(* line is modelled by what it holds.                                      *)
(***************************************************************************)
Lines ==
    {"", "// if late", "/* if late */", "x = 1;", "if (", "repo.save(", "return a + b;",
     "return a;", "iffy();"}

\* line.strip(): empty for a blank line.
IsBlankLine(line) == line = ""
\* line.strip().startswith('//')
StartsWithSlashes(line) == line = "// if late"

\* re.search(pattern, line) for the patterns of business_patterns, by line.
LineHits(pattern) ==
    CASE pattern = "\\bif\\b" -> {"// if late", "/* if late */", "if ("}
      [] pattern = "save\\(" -> {"repo.save("}
      [] pattern = "return\\s+[^;]*[\\+\\-\\*/%]" -> {"return a + b;"}
      [] OTHER -> {}

re_search_body(pattern, method_body) ==
    \E i \in 1..Len(method_body) : method_body[i] \in LineHits(pattern)

(***************************************************************************)
(* Policy constants of the classifier.                                     *)
(***************************************************************************)
MULTIPLE_VARS == 3          \* var_declarations >= 3
SIGNIFICANT_SIZE == 1000    \* body_size > 1000
MEDIUM_VARS == 2            \* var_declarations >= 2
MEDIUM_SIZE == 500          \* body_size > 500
MIN_LINES_OF_CODE == 2      \* lines_of_code < 2
EMPTY_LIST_SIZE == 2        \* len(str([]))

BodySizes == {MEDIUM_SIZE, MEDIUM_SIZE + 1, SIGNIFICANT_SIZE, SIGNIFICANT_SIZE + 1}

\* str([]) is "[]": one line of two characters, and it cannot fail.
EmptyListText == [size |-> EMPTY_LIST_SIZE, lines |-> <<"x = 1;">>]
NoFaults == [size |-> FALSE, text |-> FALSE]

(***************************************************************************)
(* has_business_logic_in_method, lines 158-215.                            *)
(***************************************************************************)
\* Mutant: the 'is' prefix is forgotten.
IsAccessorName_NoIs(name) ==
    \/ startswith(name, Str_get)
    \/ startswith(name, Str_set)

IsAccessorName(name) ==
    \/ startswith(name, Str_get)
    \/ startswith(name, Str_set)
    \/ startswith(name, Str_is)

\* Mutant: DoStatement is missing from the tuple of control statements.
IsControlStatement_NoDo(statement) == statement.kind \in ControlKinds \ {"DoStatement"}

\* isinstance(statement, (IfStatement, WhileStatement, ForStatement, DoStatement,
\* SwitchStatement, TryStatement)), lines 181-183
IsControlStatement(statement) == statement.kind \in ControlKinds
\* isinstance(statement, ThrowStatement), line 187
IsThrowStatement(statement) == statement.kind = "ThrowStatement"

\* The loop of lines 177-196 from statement i on: TRUE on the first control or
\* throw statement, else the two counters after the last statement.
RECURSIVE ScanStatements(_, _, _, _)
ScanStatements(body, i, var_declarations, return_statements) ==
    IF i > Len(body)
    THEN [returned |-> FALSE, var_declarations |-> var_declarations,
          return_statements |-> return_statements]
    ELSE IF IsControlStatement(body[i]) \/ IsThrowStatement(body[i])
    THEN [returned |-> TRUE, var_declarations |-> var_declarations,
          return_statements |-> return_statements]
    ELSE ScanStatements(
             body, i + 1,
             var_declarations +
                 (IF body[i].kind = "LocalVariableDeclaration" THEN 1 ELSE 0),
             return_statements + (IF body[i].kind = "ReturnStatement" THEN 1 ELSE 0))

\* Mutant: the size thresholds are inclusive.
SizeHeuristic_Inclusive(var_declarations, return_statements, body_size) ==
    \/ (var_declarations >= MULTIPLE_VARS /\ return_statements > 0)
    \/ body_size >= SIGNIFICANT_SIZE
    \/ (var_declarations >= MEDIUM_VARS /\ return_statements > 0 /\ body_size >= MEDIUM_SIZE)

\* Lines 198-211: the verdict from the counters and the size.
SizeHeuristic(var_declarations, return_statements, body_size) ==
    LET has_multiple_vars == var_declarations >= MULTIPLE_VARS
        has_return == return_statements > 0
        has_significant_size == body_size > SIGNIFICANT_SIZE
    IN  \/ (has_multiple_vars /\ has_return) \/ has_significant_size
        \/ (var_declarations >= MEDIUM_VARS /\ has_return /\ body_size > MEDIUM_SIZE)

\* The try block of lines 171-211: "fault" when len(str(body)) raises at line 175.
InspectStatements(m) ==
    IF m.faults.size THEN "fault"
    ELSE LET scan == ScanStatements(m.body, 1, 0, 0)
         IN IF scan.returned THEN "true"
            ELSE IF SizeHeuristic(scan.var_declarations, scan.return_statements,
                                  m.text.size)
            THEN "true" ELSE "false"

\* Mutant: the guard of line 163 answers True.
has_business_logic_outcome_GuardTrue(m) ==
    IF m.body_is_none \/ m.body = <<>> THEN "true"
    ELSE IF IsAccessorName(m.name) THEN "false"
    ELSE InspectStatements(m)

\* What the call did: "true", "false", or "fault" (caught at line 213).
has_business_logic_outcome(m) ==
    IF m.body_is_none \/ m.body = <<>> THEN "false"
    ELSE IF IsAccessorName(m.name) THEN "false"
    ELSE InspectStatements(m)

\* The value returned: a fault is answered False (lines 213-215).
has_business_logic_in_method(m) == has_business_logic_outcome(m) = "true"

(***************************************************************************)
(* is_business_rule_method, lines 218-261.                                 *)
(***************************************************************************)
business_patterns ==
    <<"\\bif\\b", "\\belse\\b", "\\bswitch\\b", "\\bcase\\b",
      "\\bfor\\b", "\\bwhile\\b", "\\bdo\\b",
      "query\\(", "execute\\(", "save\\(", "delete\\(",
      "\\.add\\(", "\\.remove\\(", "\\.set\\(", "\\.put\\(",
      "throw\\s+", "catch\\s*\\(",
      "return\\s+[^;]*[\\+\\-\\*/%]",
      "\\.compareTo\\(", "\\.equals\\(", "\\.contains\\(">>

\* Line 240: the lines that are not blank and do not start with //.
lines_of_code(method_body) ==
    Cardinality({i \in 1..Len(method_body) :
                    ~IsBlankLine(method_body[i]) /\ ~StartsWithSlashes(method_body[i])})

\* Lines 239-261: "raise" when str(method_node.body) raises at line 239.
TextHeuristic(m) ==
    IF m.faults.text THEN "raise"
    ELSE IF lines_of_code(m.text.lines) < MIN_LINES_OF_CODE THEN "false"
    ELSE IF \E k \in 1..Len(business_patterns) :
                re_search_body(business_patterns[k], m.text.lines)
    THEN "true" ELSE "false"

\* Whether line 233 is reached, and what the inspection did there.
TreeOutcome(m, has_javalang) ==
    IF m.body_is_none \/ IsAccessorName(m.name) \/ ~has_javalang THEN "skipped"
    ELSE has_business_logic_outcome(m)

\* Whether line 239 is reached, and what the string analysis did there.
TextOutcome(m, has_javalang) ==
    IF m.body_is_none \/ IsAccessorName(m.name) THEN "skipped"
    ELSE IF has_javalang /\ has_business_logic_in_method(m) THEN "skipped"
    ELSE TextHeuristic(m)

\* Mutant: a True of the AST inspection is not returned at line 234.
is_business_rule_method_TreeIgnored(m, has_javalang) ==
    IF m.body_is_none THEN "false"
    ELSE IF IsAccessorName(m.name) THEN "false"
    ELSE TextHeuristic(m)

is_business_rule_method(m, has_javalang) ==
    IF m.body_is_none THEN "false"
    ELSE IF IsAccessorName(m.name) THEN "false"
    ELSE IF has_javalang /\ has_business_logic_in_method(m) THEN "true"
    ELSE TextHeuristic(m)

(***************************************************************************)
(* The method nodes the classifier is applied to.                          *)
(***************************************************************************)
Faults == [size : BOOLEAN, text : BOOLEAN]

\* body_is_none: method_node.body is None (an abstract or interface method).
Node(name, body, text, faults) ==
    [name |-> name, modifiers |-> {"public"}, body_is_none |-> FALSE, body |-> body,
     text |-> text, faults |-> faults]

AbstractNode(name) ==
    [name |-> name, modifiers |-> {"public"}, body_is_none |-> TRUE, body |-> <<>>,
     text |-> EmptyListText, faults |-> NoFaults]

Local == Stmt("LocalVariableDeclaration")
Return == Stmt("ReturnStatement")

SampleBodies ==
    {<<Stmt("IfStatement")>>, <<Stmt("StatementExpression")>>,
     <<Local, Local, Return>>, <<Local, Local, Local, Return>>}

\* Every body of up to MaxBody statements, rendered on one line.
IsParsedMethod(m) ==
    \E n \in 1..MaxBody : \E body \in [1..n -> Statements] : \E size \in BodySizes :
        m = Node(Name_save, body, [size |-> size, lines |-> <<"x = 1;">>], NoFaults)

\* A few bodies under every name and rendering; two of the names under every fault.
IsRenderedMethod(m) ==
    \E body \in SampleBodies : \E size \in BodySizes :
    \E n \in 1..MaxLines : \E lines \in [1..n -> Lines] :
        \/ \E name \in MethodNames :
               m = Node(name, body, [size |-> size, lines |-> lines], NoFaults)
        \/ \E name \in {Name_save, Name_isOpen} : \E faults \in Faults :
               m = Node(name, body, [size |-> size, lines |-> lines], faults)

\* Abstract methods (no body) and empty bodies, whose text is fixed.
IsBodilessMethod(m) ==
    \E name \in MethodNames :
        \/ m = Node(name, <<>>, EmptyListText, NoFaults)
        \/ m = AbstractNode(name)

(***************************************************************************)
(* Files of the project tree.  A path is the file's index in the walk; the *)
(* content of a file is the set of markers its text holds.                 *)
(***************************************************************************)
JAVA_FILE_EXT == ".java"
\* Mutant: plain html pages count as views.
JSF_FILE_EXT_WithHtml == <<".xhtml", ".jsf", ".html">>

JSF_FILE_EXT == <<".xhtml", ".jsf">>

ENTITY_PATTERNS == <<"@Entity\\b", "@Table\\b">>

BUSINESS_PATTERNS ==
    <<"@Named\\b", "@Controller\\b", "@Service\\b", "@RestController\\b",
      "@ManagedBean\\b", "extends.*Controller\\b">>

EntityMarkers == {"@Entity", "@Table"}
BusinessMarkers ==
    {"@Named", "@Controller", "@Service", "@RestController", "@ManagedBean",
     "extends BaseController"}

\* re.search(pattern, marker): \b keeps @Entity from matching @EntityListeners, and
\* @Controller does not occur in @RestController.
MarkerHits(pattern) ==
    CASE pattern = "@Entity\\b" -> {"@Entity"}
      [] pattern = "@Table\\b" -> {"@Table"}
      [] pattern = "@Named\\b" -> {"@Named"}
      [] pattern = "@Controller\\b" -> {"@Controller"}
      [] pattern = "@Service\\b" -> {"@Service"}
      [] pattern = "@RestController\\b" -> {"@RestController"}
      [] pattern = "@ManagedBean\\b" -> {"@ManagedBean"}
      [] pattern = "extends.*Controller\\b" -> {"extends BaseController"}
      [] OTHER -> {}

re_search(pattern, content) == content \cap MarkerHits(pattern) # {}

\* [p for p in patterns if re.search(p, content)]
FoundPatterns(patterns, content) ==
    LET Test(p) == re_search(p, content) IN SelectSeq(patterns, Test)

File(ext, readable, content) ==
    [ext |-> ext, readable |-> readable, content |-> content, blank |-> FALSE,
     parses |-> TRUE, types |-> <<>>, in_output |-> FALSE]

\* Java sources: any entity annotations with at most one business marker, or a
\* near miss of an entity annotation.
FileContents ==
    {e \cup b : e \in SUBSET EntityMarkers, b \in {{}} \cup {{t} : t \in BusinessMarkers}}
    \cup {{"@EntityListeners"}, {"@EntityListeners", "@Service"}}

ClassifiedFiles ==
    {File(JAVA_FILE_EXT, TRUE, c) : c \in FileContents}
    \cup {File(JAVA_FILE_EXT, FALSE, {"@Entity", "@Service"})}
    \cup {File(e, TRUE, {}) : e \in {".xhtml", ".jsf", ".txt"}}

EmptyDict == [p \in {} |-> <<>>]
\* d[key] = value
DictSet(d, key, value) ==
    [p \in DOMAIN d \cup {key} |-> IF p = key THEN value ELSE d[p]]

(***************************************************************************)
(* analyze_java_file, lines 70-88, and analyze_jsf_file, lines 90-92.      *)
(***************************************************************************)
\* Mutant: the business check is not suppressed by an entity match.
analyze_java_file_NoPrecedence(filepath) ==
    IF ~tree[filepath].readable
    THEN /\ analysis_log' = Append(analysis_log, [entry |-> "ERRO ao ler", path |-> filepath])
         /\ UNCHANGED <<entity_classes, business_components>>
    ELSE LET found_entity_patterns == FoundPatterns(ENTITY_PATTERNS, tree[filepath].content)
             found_business_patterns ==
                 FoundPatterns(BUSINESS_PATTERNS, tree[filepath].content)
         IN /\ entity_classes' =
                   IF found_entity_patterns # <<>>
                   THEN DictSet(entity_classes, filepath, found_entity_patterns)
                   ELSE entity_classes
            /\ business_components' =
                   IF found_business_patterns # <<>>
                   THEN DictSet(business_components, filepath, found_business_patterns)
                   ELSE business_components
            /\ UNCHANGED analysis_log

\* Mutant: a read fault is swallowed without a log entry.
analyze_java_file_FaultNotLogged(filepath) ==
    IF ~tree[filepath].readable
    THEN UNCHANGED <<analysis_log, entity_classes, business_components>>
    ELSE LET found_entity_patterns == FoundPatterns(ENTITY_PATTERNS, tree[filepath].content)
             found_business_patterns ==
                 FoundPatterns(BUSINESS_PATTERNS, tree[filepath].content)
         IN /\ entity_classes' =
                   IF found_entity_patterns # <<>>
                   THEN DictSet(entity_classes, filepath, found_entity_patterns)
                   ELSE entity_classes
            /\ business_components' =
                   IF found_entity_patterns = <<>> /\ found_business_patterns # <<>>
                   THEN DictSet(business_components, filepath, found_business_patterns)
                   ELSE business_components
            /\ UNCHANGED analysis_log

analyze_java_file(filepath) ==
    IF ~tree[filepath].readable
    THEN /\ analysis_log' = Append(analysis_log, [entry |-> "ERRO ao ler", path |-> filepath])
         /\ UNCHANGED <<entity_classes, business_components>>
    ELSE LET found_entity_patterns == FoundPatterns(ENTITY_PATTERNS, tree[filepath].content)
             found_business_patterns ==
                 FoundPatterns(BUSINESS_PATTERNS, tree[filepath].content)
         IN /\ entity_classes' =
                   IF found_entity_patterns # <<>>
                   THEN DictSet(entity_classes, filepath, found_entity_patterns)
                   ELSE entity_classes
            /\ business_components' =
                   IF found_entity_patterns = <<>> /\ found_business_patterns # <<>>
                   THEN DictSet(business_components, filepath, found_business_patterns)
                   ELSE business_components
            /\ UNCHANGED analysis_log

\* Mutant: the page is appended by the test and by the call.
analyze_jsf_file_Twice(filepath) == jsf_pages' = jsf_pages \o <<filepath, filepath>>

analyze_jsf_file(filepath) == jsf_pages' = Append(jsf_pages, filepath)

endswith_any(ext, exts) == \E k \in 1..Len(exts) : ext = exts[k]

\* Lines 128-129: the two lines logged before the passes.
StartLog == <<[entry |-> "Iniciando", path |-> 0], [entry |-> "Hora", path |-> 0]>>

(***************************************************************************)
(* capture_database_info, lines 94-122.  The content of a configuration    *)
(* file is the set of settings it holds; a text is a first line and the    *)
(* lines joined after it.                                                  *)
(***************************************************************************)
config_files == <<".properties", ".xml", ".yml", ".yaml">>

JDBC_PATTERN == "jdbc[:/]?.*url|jdbc:|spring.datasource.url"
DIALECT_PATTERN == "hibernate\\.dialect"
DATASOURCE_PATTERN == "spring\\.datasource"

Settings ==
    {"jdbc:h2:mem:test", "JDBC.URL", "spring.datasource.url", "spring.datasource.username",
     "spring-datasource-url", "hibernate.dialect", "Hibernate.Dialect", "hibernate_dialect",
     "server.port"}

\* re.search(pattern, setting, re.IGNORECASE): an unescaped dot matches any
\* character, an escaped one only a dot.
SettingHits(pattern) ==
    CASE pattern = JDBC_PATTERN ->
             {"jdbc:h2:mem:test", "JDBC.URL", "spring.datasource.url", "spring-datasource-url"}
      [] pattern = DIALECT_PATTERN -> {"hibernate.dialect", "Hibernate.Dialect"}
      [] pattern = DATASOURCE_PATTERN ->
             {"spring.datasource.url", "spring.datasource.username"}
      [] OTHER -> {}

re_search_ignorecase(pattern, content) == content \cap SettingHits(pattern) # {}

\* Lines 107-113: the categories found in one file, in the order of the tests.
HintInfo(content) ==
    (IF re_search_ignorecase(JDBC_PATTERN, content) THEN <<"Possivel URL JDBC">> ELSE <<>>)
    \o (IF re_search_ignorecase(DIALECT_PATTERN, content)
        THEN <<"Dialeto Hibernate/JPA">> ELSE <<>>)
    \o (IF re_search_ignorecase(DATASOURCE_PATTERN, content)
        THEN <<"Configuracao Spring Datasource">> ELSE <<>>)

\* Mutant: one line for each category found.
HintLines_PerCategory(filepath, info) ==
    [k \in DOMAIN info |-> [file |-> filepath, info |-> <<info[k]>>, path |-> filepath]]

\* Lines 114-115: what one file adds to db_info_list.
HintLines(filepath, info) ==
    IF info # <<>> THEN <<[file |-> filepath, info |-> info, path |-> filepath]>> ELSE <<>>

DB_PLACEHOLDER ==
    [head |-> "Nenhuma informacao de DB capturada de forma automatica neste script.",
     lines |-> <<>>]
DB_NOT_FOUND ==
    [head |-> "Nao foram encontrados arquivos de configuracao de DB comuns (.properties, .xml, .yml).",
     lines |-> <<>>]
DB_FOUND_HEADER == "### Arquivos de Configuracao de Banco de Dados Encontrados"

\* Mutant: the header is written whatever the list holds.
DatabaseSummary_AlwaysHeader(list) == [head |-> DB_FOUND_HEADER, lines |-> list]

\* Lines 119-122
DatabaseSummary(list) ==
    IF list # <<>> THEN [head |-> DB_FOUND_HEADER, lines |-> list] ELSE DB_NOT_FOUND

\* capture_database_info has not run: the module-level value of line 65.
DatabaseIdle ==
    /\ db_pos = 1
    /\ db_info_list = <<>>
    /\ db_info_placeholder = DB_PLACEHOLDER

\* capture_database_info has run on a tree without configuration files.
DatabaseNotFound ==
    /\ db_pos = Len(tree) + 1
    /\ db_info_list = <<>>
    /\ db_info_placeholder = DB_NOT_FOUND

\* Nothing is generated, written or printed yet.
NoReport == [built |-> FALSE]
NoFile == [written |-> FALSE, content |-> NoReport]
ReportsIdle ==
    /\ report_content = NoReport
    /\ excel_filename = "None"
    /\ workbook = NoFile
    /\ md_file = NoFile
    /\ html_file = NoFile
    /\ console = <<>>

\* The script was given a directory that holds its output folder; first run.
MainIdle ==
    /\ argv = "directory"
    /\ exit_status = 0
    /\ output_folder = TRUE
    /\ run = 1
    /\ first_report = NoReport

\* The reports of a run are files of the output folder: rnc-<name>.md (637),
\* rnc-<name>.xlsx (626) and rnc-<name>.html (729).
ArtifactOnDisk(ext) ==
    \/ ext = ".md" /\ md_file.written
    \/ ext = ".xlsx" /\ workbook.written
    \/ ext = ".html" /\ html_file.written

\* os.walk yields the files that are on disk: every file of the project, and a
\* report of the output folder once it has been written.
Yielded(path) == tree[path].in_output => ArtifactOnDisk(tree[path].ext)

\* The metrics pass before it starts: business_rules_metrics = {} (line 68).
MetricsIdle ==
    /\ file_pos = 1
    /\ type_pos = 1
    /\ method_pos = 1
    /\ method = AbstractNode(Name_save)
    /\ metrics_list = <<>>
    /\ public_methods = 0
    /\ business_methods = 0
    /\ business_method_names = <<>>
    /\ all_metrics = <<>>
    /\ controllers = <<>>
    /\ services = <<>>
    /\ business_rules_metrics = EmptyDict

(***************************************************************************)
(* The walk of run_analysis, lines 133-141.                                *)
(***************************************************************************)
InitClassification ==
    /\ HAS_JAVALANG \in BOOLEAN
    /\ HAS_OPENPYXL = TRUE
    /\ \E n \in 0..MaxFiles : tree \in [1..n -> ClassifiedFiles]
    /\ method_node = AbstractNode(Name_save)
    /\ verdict = "pending"
    /\ tree_outcome = "skipped"
    /\ text_outcome = "skipped"
    /\ phase = "walk"
    /\ walk_pos = 1
    /\ entity_classes = EmptyDict
    /\ business_components = EmptyDict
    /\ jsf_pages = <<>>
    /\ analysis_log = StartLog
    /\ MetricsIdle
    /\ DatabaseNotFound
    /\ ReportsIdle
    /\ MainIdle

\* Lines 136-137
WalkJavaFile ==
    /\ phase = "walk"
    /\ walk_pos <= Len(tree)
    /\ Yielded(walk_pos)
    /\ tree[walk_pos].ext = JAVA_FILE_EXT
    /\ analyze_java_file(walk_pos)
    /\ walk_pos' = walk_pos + 1
    /\ UNCHANGED <<main_vars, HAS_JAVALANG, HAS_OPENPYXL, tree, db_vars, report_vars,
                   classifier_vars, phase, jsf_pages, metrics_vars>>

\* Lines 138-139
WalkJsfFile ==
    /\ phase = "walk"
    /\ walk_pos <= Len(tree)
    /\ Yielded(walk_pos)
    /\ tree[walk_pos].ext # JAVA_FILE_EXT
    /\ endswith_any(tree[walk_pos].ext, JSF_FILE_EXT)
    /\ analyze_jsf_file(walk_pos)
    /\ walk_pos' = walk_pos + 1
    /\ UNCHANGED <<main_vars, HAS_JAVALANG, HAS_OPENPYXL, tree, db_vars, report_vars,
                   classifier_vars, phase, entity_classes,
                   business_components, analysis_log, metrics_vars>>

\* A file of another extension: neither branch is taken.
WalkOtherFile ==
    /\ phase = "walk"
    /\ walk_pos <= Len(tree)
    /\ Yielded(walk_pos)
    /\ tree[walk_pos].ext # JAVA_FILE_EXT
    /\ ~endswith_any(tree[walk_pos].ext, JSF_FILE_EXT)
    /\ walk_pos' = walk_pos + 1
    /\ UNCHANGED <<main_vars, HAS_JAVALANG, HAS_OPENPYXL, tree, db_vars, report_vars,
                   classifier_vars, phase, entity_classes,
                   business_components, jsf_pages, analysis_log, metrics_vars>>

\* Line 141
WalkDone ==
    /\ phase = "walk"
    /\ walk_pos > Len(tree)
    /\ phase' = "walked"
    /\ analysis_log' = Append(analysis_log, [entry |-> "Concluida", path |-> 0])
    /\ UNCHANGED <<main_vars, HAS_JAVALANG, HAS_OPENPYXL, tree, db_vars, report_vars,
                   classifier_vars, pass_vars, metrics_vars>>

NextClassification == WalkJavaFile \/ WalkJsfFile \/ WalkOtherFile \/ WalkDone

SpecClassification == InitClassification /\ [][NextClassification]_vars

(***************************************************************************)
(* The walk of capture_database_info, lines 100-122.                       *)
(***************************************************************************)
\* A file whose name ends in one of config_files, with some settings.
ConfigContents ==
    {{}} \cup {{x} : x \in Settings}
    \cup {{"jdbc:h2:mem:test", "hibernate.dialect"},
          {"hibernate.dialect", "spring.datasource.username"},
          {"jdbc:h2:mem:test", "Hibernate.Dialect", "spring.datasource.username"},
          {"spring.datasource.url", "hibernate.dialect"}}

ConfigFiles ==
    {File(".properties", TRUE, c) : c \in ConfigContents}
    \cup {File(".xml", TRUE, {"hibernate.dialect"}),
          File(".yml", TRUE, {"spring.datasource.username"}),
          File(".yaml", TRUE, {"server.port"}),
          File(".properties", FALSE, {"jdbc:h2:mem:test"}),
          File(JAVA_FILE_EXT, TRUE, {"jdbc:h2:mem:test"}),
          File(".txt", TRUE, {"hibernate.dialect"})}

InitDatabase ==
    /\ HAS_JAVALANG \in BOOLEAN
    /\ HAS_OPENPYXL = TRUE
    /\ \E n \in 0..MaxFiles : tree \in [1..n -> ConfigFiles]
    /\ method_node = AbstractNode(Name_save)
    /\ verdict = "pending"
    /\ tree_outcome = "skipped"
    /\ text_outcome = "skipped"
    /\ phase = "database"
    /\ walk_pos = 1
    /\ entity_classes = EmptyDict
    /\ business_components = EmptyDict
    /\ jsf_pages = <<>>
    /\ analysis_log = StartLog
    /\ MetricsIdle
    /\ DatabaseIdle
    /\ ReportsIdle
    /\ MainIdle

DatabaseFrame ==
    UNCHANGED <<main_vars, HAS_JAVALANG, HAS_OPENPYXL, tree, classifier_vars, pass_vars, analysis_log,
                metrics_vars, report_vars>>

\* Lines 102-115: a configuration file is read and its hints are appended.
ScanConfigFile ==
    /\ phase = "database"
    /\ db_pos <= Len(tree)
    /\ Yielded(db_pos)
    /\ endswith_any(tree[db_pos].ext, config_files)
    /\ tree[db_pos].readable
    /\ db_info_list' = db_info_list \o HintLines(db_pos, HintInfo(tree[db_pos].content))
    /\ db_pos' = db_pos + 1
    /\ DatabaseFrame
    /\ UNCHANGED <<phase, db_info_placeholder>>

\* Lines 104-106 and 116-117: the read raises and the file is passed over.
ScanUnreadableFile ==
    /\ phase = "database"
    /\ db_pos <= Len(tree)
    /\ Yielded(db_pos)
    /\ endswith_any(tree[db_pos].ext, config_files)
    /\ ~tree[db_pos].readable
    /\ db_pos' = db_pos + 1
    /\ DatabaseFrame
    /\ UNCHANGED <<phase, db_info_list, db_info_placeholder>>

\* Line 102 fails: not a configuration file.
ScanOtherFile ==
    /\ phase = "database"
    /\ db_pos <= Len(tree)
    /\ Yielded(db_pos)
    /\ ~endswith_any(tree[db_pos].ext, config_files)
    /\ db_pos' = db_pos + 1
    /\ DatabaseFrame
    /\ UNCHANGED <<phase, db_info_list, db_info_placeholder>>

\* Lines 119-122, and the return to run_analysis at line 131.
FinishDatabaseInfo ==
    /\ phase = "database"
    /\ db_pos > Len(tree)
    /\ db_info_placeholder' = DatabaseSummary(db_info_list)
    /\ phase' = "walk"
    /\ DatabaseFrame
    /\ UNCHANGED <<db_pos, db_info_list>>

NextDatabase == ScanConfigFile \/ ScanUnreadableFile \/ ScanOtherFile \/ FinishDatabaseInfo

SpecDatabase == InitDatabase /\ [][NextDatabase]_vars

(***************************************************************************)
(* The classifier applied to one method node.                              *)
(***************************************************************************)
\* A parsed body of any shape exists only where the parser does.
InitMethod ==
    /\ \/ HAS_JAVALANG \in BOOLEAN /\ IsRenderedMethod(method_node)
       \/ HAS_JAVALANG \in BOOLEAN /\ IsBodilessMethod(method_node)
       \/ HAS_JAVALANG = TRUE /\ IsParsedMethod(method_node)
    /\ HAS_OPENPYXL = TRUE
    /\ tree = <<>>
    /\ verdict = "pending"
    /\ tree_outcome = "skipped"
    /\ text_outcome = "skipped"
    /\ phase = "classifier"
    /\ walk_pos = 1
    /\ entity_classes = EmptyDict
    /\ business_components = EmptyDict
    /\ jsf_pages = <<>>
    /\ analysis_log = <<>>
    /\ MetricsIdle
    /\ DatabaseIdle
    /\ ReportsIdle
    /\ MainIdle

Classify ==
    /\ verdict = "pending"
    /\ verdict' = is_business_rule_method(method_node, HAS_JAVALANG)
    /\ tree_outcome' = TreeOutcome(method_node, HAS_JAVALANG)
    /\ text_outcome' = TextOutcome(method_node, HAS_JAVALANG)
    /\ UNCHANGED <<main_vars, HAS_JAVALANG, HAS_OPENPYXL, tree, method_node, phase, pass_vars,
                   analysis_log, metrics_vars, db_vars, report_vars>>

NextMethod == Classify

SpecMethod == InitMethod /\ [][NextMethod]_vars

(***************************************************************************)
(* Parsed sources for the metrics pass.  A class name is a sequence of     *)
(* words, so that 'Controller' in class_name is computed.                  *)
(***************************************************************************)
OneLine(size) == [size |-> size, lines |-> <<"x = 1;">>]
WithModifiers(m, modifiers) == [m EXCEPT !.modifiers = modifiers]

\* Three locals and a return: business logic by the counters.
M_computeTotals ==
    Node(Name_computeTotals, <<Local, Local, Local, Return>>, OneLine(MEDIUM_SIZE), NoFaults)
M_save ==
    WithModifiers(
        Node(Name_save, <<Local, Return, Local, Local>>, OneLine(SIGNIFICANT_SIZE), NoFaults),
        {"public", "static"})
\* An accessor with an if, two locals and a return, a private method with an if.
M_getId == Node(Name_getId, <<Stmt("IfStatement")>>, OneLine(SIGNIFICANT_SIZE + 1), NoFaults)
M_reset == Node(Name_reset, <<Local, Local, Return>>, OneLine(MEDIUM_SIZE), NoFaults)
M_private ==
    WithModifiers(Node(Name_issue, <<Stmt("IfStatement")>>, OneLine(MEDIUM_SIZE), NoFaults),
                  {"private"})
\* A try after a local: business logic by the control statement.
M_try ==
    Node(Name_reset, <<Local, Stmt("TryStatement")>>, OneLine(MEDIUM_SIZE), NoFaults)
\* An interface method.
M_abstract == AbstractNode(Name_save)
\* str(body) raises wherever it is called.
M_deep ==
    Node(Name_computeTotals, <<Local, Local, Return>>, OneLine(MEDIUM_SIZE),
         [size |-> TRUE, text |-> TRUE])
\* str(body) raises in the inspection only; the text has two lines and an if.
M_guarded ==
    Node(Name_reset, <<Stmt("IfStatement")>>,
         [size |-> MEDIUM_SIZE, lines |-> <<"if (", "x = 1;">>],
         [size |-> TRUE, text |-> FALSE])

\* A private method whose str(body) raises: it is never classified.
M_privateDeep ==
    WithModifiers(
        Node(Name_issue, <<Local, Return>>, OneLine(MEDIUM_SIZE), [size |-> TRUE, text |-> TRUE]),
        {"private"})

Type(name, methods) == [name |-> name, methods |-> methods]

T_OrderController ==
    Type(<<"Order", "Controller">>, <<M_computeTotals, M_getId, M_private, M_save>>)
T_OrderService == Type(<<"Order", "Service">>, <<M_reset, M_computeTotals, M_try>>)
T_OrderRepository == Type(<<"Order", "Repository">>, <<M_abstract, M_guarded>>)
T_Helper == Type(<<"Helper">>, <<M_private, M_privateDeep>>)
T_ReportServiceImpl ==
    Type(<<"Report", "Service", "Impl">>, <<M_save, M_deep, M_computeTotals>>)

Source(types) ==
    [ext |-> JAVA_FILE_EXT, readable |-> TRUE, content |-> {}, blank |-> FALSE,
     parses |-> TRUE, types |-> types, in_output |-> FALSE]

ParsedFiles ==
    {Source(<<t>>) :
        t \in {T_OrderController, T_OrderService, T_OrderRepository, T_Helper,
               T_ReportServiceImpl}}
    \cup {Source(<<T_OrderController, T_OrderService>>),
          Source(<<T_OrderService, T_OrderController>>),
          Source(<<T_Helper, T_OrderController>>),
          Source(<<T_OrderController, T_ReportServiceImpl>>),
          Source(<<T_ReportServiceImpl, T_OrderService>>),
          Source(<<T_OrderRepository, T_Helper>>)}
    \cup {[Source(<<>>) EXCEPT !.readable = FALSE],
          [Source(<<>>) EXCEPT !.blank = TRUE],
          [Source(<<>>) EXCEPT !.parses = FALSE],
          File(".xhtml", TRUE, {})}

\* Class names of up to MaxWords words, on a type with one public method or with
\* one private method.
Words == {"Order", "Controller", "Service", "Repository", "Impl"}

NamedSources ==
    UNION {{Source(<<Type(name, <<m>>)>>) : name \in [1..n -> Words], m \in {M_save, M_private}} :
           n \in 1..MaxWords}

\* sub in s, for sequences
Contains(s, sub) ==
    \E k \in 0..(Len(s) - Len(sub)) : SubSeq(s, k + 1, k + Len(sub)) = sub

RECURSIVE SumBusinessMethods(_)
SumBusinessMethods(metrics) ==
    IF metrics = <<>> THEN 0
    ELSE Head(metrics).business_methods + SumBusinessMethods(Tail(metrics))

(***************************************************************************)
(* run_analysis, lines 144-156, analyze_business_rules, lines 331-380, and *)
(* analyze_java_file_ast, lines 264-328.                                   *)
(***************************************************************************)
InitMetrics ==
    /\ HAS_JAVALANG \in BOOLEAN
    /\ HAS_OPENPYXL = TRUE
    /\ \/ \E n \in 0..MaxFiles : tree \in [1..n -> ParsedFiles]
       \/ \E file \in NamedSources : tree = <<file>>
    /\ method_node = AbstractNode(Name_save)
    /\ verdict = "pending"
    /\ tree_outcome = "skipped"
    /\ text_outcome = "skipped"
    /\ phase = "walked"
    /\ walk_pos = Len(tree) + 1
    /\ entity_classes = EmptyDict
    /\ business_components = EmptyDict
    /\ jsf_pages = <<>>
    /\ analysis_log = Append(StartLog, [entry |-> "Concluida", path |-> 0])
    /\ MetricsIdle
    /\ DatabaseNotFound
    /\ ReportsIdle
    /\ MainIdle

MetricsFrame ==
    UNCHANGED <<main_vars, HAS_JAVALANG, HAS_OPENPYXL, tree, classifier_vars, pass_vars, db_vars,
                report_vars>>

\* Lines 155-156: without javalang the pass is skipped.
SkipBusinessRules ==
    /\ phase = "walked"
    /\ ~HAS_JAVALANG
    /\ phase' = "done"
    /\ analysis_log' = Append(analysis_log, [entry |-> "javalang indisponivel", path |-> 0])
    /\ MetricsFrame
    /\ UNCHANGED metrics_vars

\* Lines 144-146 and 335-337
StartBusinessRules ==
    /\ phase = "walked"
    /\ HAS_JAVALANG
    /\ phase' = "files"
    /\ analysis_log' = Append(analysis_log, [entry |-> "Iniciando AST", path |-> 0])
    /\ file_pos' = 1
    /\ all_metrics' = <<>> /\ controllers' = <<>> /\ services' = <<>>
    /\ MetricsFrame
    /\ UNCHANGED <<type_pos, method_pos, method, metrics_list, type_vars,
                   business_rules_metrics>>

\* Mutant: a file that yields no metrics ends the walk.
FileWithoutMetrics_Aborts ==
    /\ phase = "files"
    /\ file_pos <= Len(tree)
    /\ Yielded(file_pos)
    /\ \/ tree[file_pos].ext # JAVA_FILE_EXT
       \/ ~tree[file_pos].readable
       \/ tree[file_pos].blank
       \/ ~tree[file_pos].parses
    /\ file_pos' = Len(tree) + 1
    /\ MetricsFrame
    /\ UNCHANGED <<phase, analysis_log, type_pos, method_pos, method, metrics_list,
                   type_vars, list_vars, business_rules_metrics>>

\* Line 342 fails, or analyze_java_file_ast returns None at line 277 or 328: the
\* file cannot be opened, is blank, or does not parse.
FileWithoutMetrics ==
    /\ phase = "files"
    /\ file_pos <= Len(tree)
    /\ Yielded(file_pos)
    /\ \/ tree[file_pos].ext # JAVA_FILE_EXT
       \/ ~tree[file_pos].readable
       \/ tree[file_pos].blank
       \/ ~tree[file_pos].parses
    /\ file_pos' = file_pos + 1
    /\ MetricsFrame
    /\ UNCHANGED <<phase, analysis_log, type_pos, method_pos, method, metrics_list,
                   type_vars, list_vars, business_rules_metrics>>

\* Lines 273-280: the file is read and parsed.
ParseFile ==
    /\ phase = "files"
    /\ file_pos <= Len(tree)
    /\ Yielded(file_pos)
    /\ tree[file_pos].ext = JAVA_FILE_EXT
    /\ tree[file_pos].readable /\ ~tree[file_pos].blank /\ tree[file_pos].parses
    /\ metrics_list' = <<>>
    /\ type_pos' = 1
    /\ phase' = "types"
    /\ MetricsFrame
    /\ UNCHANGED <<analysis_log, file_pos, method_pos, method, type_vars, list_vars,
                   business_rules_metrics>>

\* Lines 283-289: the next type declaration, its counters reset.
BeginType ==
    /\ phase = "types"
    /\ type_pos <= Len(tree[file_pos].types)
    /\ public_methods' = 0
    /\ business_methods' = 0
    /\ business_method_names' = <<>>
    /\ method_pos' = 1
    /\ phase' = "methods"
    /\ MetricsFrame
    /\ UNCHANGED <<analysis_log, file_pos, type_pos, method, metrics_list, list_vars,
                   business_rules_metrics>>

CurrentMethods == tree[file_pos].types[type_pos].methods

\* Mutant: the modifier is not looked at.
IsPublic_Any(m) == TRUE

\* Line 293: 'public' in method.modifiers
IsPublic(m) == "public" \in m.modifiers

\* Lines 291-299: one method of the type; the classifier returns.
VisitMethod ==
    /\ phase = "methods"
    /\ method_pos <= Len(CurrentMethods)
    /\ LET m == CurrentMethods[method_pos]
           is_business == is_business_rule_method(m, HAS_JAVALANG)
       IN /\ IsPublic(m) => is_business # "raise"
          /\ method' = m
          /\ IF IsPublic(m)
             THEN /\ public_methods' = public_methods + 1
                  /\ IF is_business = "true"
                     THEN /\ business_methods' = business_methods + 1
                          /\ business_method_names' = Append(business_method_names, m.name)
                     ELSE UNCHANGED <<business_methods, business_method_names>>
             ELSE UNCHANGED type_vars
    /\ method_pos' = method_pos + 1
    /\ MetricsFrame
    /\ UNCHANGED <<phase, analysis_log, file_pos, type_pos, metrics_list, list_vars,
                   business_rules_metrics>>

\* Mutant: the records built before the fault are kept.
MethodRaises_KeepsEarlier ==
    /\ phase = "methods"
    /\ method_pos <= Len(CurrentMethods)
    /\ LET m == CurrentMethods[method_pos]
       IN /\ IsPublic(m)
          /\ is_business_rule_method(m, HAS_JAVALANG) = "raise"
          /\ method' = m
    /\ public_methods' = public_methods + 1
    /\ metrics_list' = <<>>
    /\ all_metrics' = all_metrics \o metrics_list
    /\ file_pos' = file_pos + 1
    /\ phase' = "files"
    /\ MetricsFrame
    /\ UNCHANGED <<analysis_log, type_pos, method_pos, business_methods,
                   business_method_names, controllers, services, business_rules_metrics>>

\* Lines 297 and 326-328: the classifier raises on a public method; the except
\* of analyze_java_file_ast returns None and the file yields nothing.
MethodRaises ==
    /\ phase = "methods"
    /\ method_pos <= Len(CurrentMethods)
    /\ LET m == CurrentMethods[method_pos]
       IN /\ IsPublic(m)
          /\ is_business_rule_method(m, HAS_JAVALANG) = "raise"
          /\ method' = m
    /\ public_methods' = public_methods + 1
    /\ metrics_list' = <<>>
    /\ file_pos' = file_pos + 1
    /\ phase' = "files"
    /\ MetricsFrame
    /\ UNCHANGED <<analysis_log, type_pos, method_pos, business_methods,
                   business_method_names, list_vars, business_rules_metrics>>

\* Mutant: 'Service' is tested before 'Controller'.
ClassType_ServiceFirst(class_name) ==
    IF Contains(class_name, <<"Service">>) THEN "Service"
    ELSE IF Contains(class_name, <<"Controller">>) THEN "Controller"
    ELSE IF Contains(class_name, <<"Repository">>) THEN "Repository"
    ELSE IF Contains(class_name, <<"Impl">>) THEN "Implementation"
    ELSE "Class"

\* Lines 301-311
ClassType(class_name) ==
    IF Contains(class_name, <<"Controller">>) THEN "Controller"
    ELSE IF Contains(class_name, <<"Service">>) THEN "Service"
    ELSE IF Contains(class_name, <<"Repository">>) THEN "Repository"
    ELSE IF Contains(class_name, <<"Impl">>) THEN "Implementation"
    ELSE "Class"

\* Mutant: a type without public methods is recorded too.
HasPublicMethods_Always(count) == count >= 0

\* Line 313: if public_methods > 0
HasPublicMethods(count) == count > 0

\* Lines 301-322: the type's record, kept when it has a public method.
EndType ==
    /\ phase = "methods"
    /\ method_pos > Len(CurrentMethods)
    /\ LET class_name == tree[file_pos].types[type_pos].name
           metrics ==
               [class_name |-> class_name, file_path |-> file_pos,
                controller_type |-> ClassType(class_name),
                public_methods |-> public_methods,
                business_methods |-> business_methods,
                business_method_names |-> business_method_names]
       IN metrics_list' =
              IF HasPublicMethods(public_methods)
              THEN Append(metrics_list, metrics)
              ELSE metrics_list
    /\ type_pos' = type_pos + 1
    /\ phase' = "types"
    /\ MetricsFrame
    /\ UNCHANGED <<analysis_log, file_pos, method_pos, method, type_vars, list_vars,
                   business_rules_metrics>>

\* 'Controller' in metric.controller_type, on the label
IsLabel(metric, label) == metric.controller_type = label

\* Mutant: the records of a file go in front of the list.
Extend_Front(list, items) == items \o list

\* Lines 347-352: list.append(metric) for each metric, in order
Extend(list, items) == list \o items

\* Lines 324 and 346-352: the file's records join the lists.
CloseFile ==
    /\ phase = "types"
    /\ type_pos > Len(tree[file_pos].types)
    /\ all_metrics' = Extend(all_metrics, metrics_list)
    /\ controllers' =
           Extend(controllers, SelectSeq(metrics_list, LAMBDA r : IsLabel(r, "Controller")))
    /\ services' =
           Extend(services,
                  SelectSeq(metrics_list,
                            LAMBDA r : ~IsLabel(r, "Controller") /\ IsLabel(r, "Service")))
    /\ file_pos' = file_pos + 1
    /\ phase' = "files"
    /\ MetricsFrame
    /\ UNCHANGED <<analysis_log, type_pos, method_pos, method, metrics_list, type_vars,
                   business_rules_metrics>>

\* Mutant: the division is not guarded by the emptiness test.
Average_Unguarded(metrics) ==
    [num |-> SumBusinessMethods(metrics), den |-> Len(metrics)]

\* Lines 355-365.  An average as a fraction; 0 is 0/1.
Average(metrics) ==
    IF metrics = <<>> THEN [num |-> 0, den |-> 1]
    ELSE [num |-> SumBusinessMethods(metrics), den |-> Len(metrics)]

\* Mutant: only controllers and services are summed.
TotalBusinessMethods_RolesOnly(all, ctrl, svc) ==
    SumBusinessMethods(ctrl) + SumBusinessMethods(svc)

\* Lines 357 and 367-368
TotalBusinessMethods(all, ctrl, svc) ==
    IF all # <<>> THEN SumBusinessMethods(all) ELSE 0

\* Lines 354-380, and the log lines of 147-154.
FinishBusinessRules ==
    /\ phase = "files"
    /\ file_pos > Len(tree)
    /\ business_rules_metrics' =
           [all_metrics |-> all_metrics,
            controllers |-> controllers,
            services |-> services,
            total_classes |-> Len(all_metrics),
            total_controllers |-> Len(controllers),
            total_services |-> Len(services),
            avg_business_methods_per_controller |-> Average(controllers),
            avg_business_methods_per_service |-> Average(services),
            total_business_methods |->
                TotalBusinessMethods(all_metrics, controllers, services)]
    /\ analysis_log' =
           analysis_log
           \o <<[entry |-> "Classes analisadas", path |-> Len(all_metrics)],
                [entry |-> "Controllers", path |-> Len(controllers)],
                [entry |-> "Services", path |-> Len(services)],
                [entry |-> "Metodos",
                 path |-> TotalBusinessMethods(all_metrics, controllers, services)]>>
           \o (IF Len(controllers) > 0
               THEN <<[entry |-> "Media", path |-> Len(controllers)]>> ELSE <<>>)
           \o <<[entry |-> "AST concluida", path |-> 0]>>
    /\ phase' = "done"
    /\ MetricsFrame
    /\ UNCHANGED <<file_pos, type_pos, method_pos, method, metrics_list, type_vars,
                   list_vars>>

NextMetrics ==
    \/ SkipBusinessRules
    \/ StartBusinessRules
    \/ FileWithoutMetrics
    \/ ParseFile
    \/ BeginType
    \/ VisitMethod
    \/ MethodRaises
    \/ EndType
    \/ CloseFile
    \/ FinishBusinessRules

SpecMetrics == InitMetrics /\ [][NextMetrics]_vars

(***************************************************************************)
(* The reports: generate_markdown_report, lines 634-724,                   *)
(* generate_excel_report, lines 391-632, generate_html_report, lines       *)
(* 726-1341, and save_and_display_report, lines 1343-1372.  A report is    *)
(* modelled by the data each of its sections shows.                        *)
(***************************************************************************)
\* The notice shown in place of the business-rule figures (lines 717, 606, 1312).
NOT_AVAILABLE == [notice |-> "javalang nao instalado"]

\* `business_rules_metrics and HAS_JAVALANG`
RulesAvailable(metrics, has_javalang) == metrics # EmptyDict /\ has_javalang

\* Mutant: without the parser the section shows the figures of an empty result.
MarkdownRules_NoNotice(metrics, has_javalang) ==
    IF RulesAvailable(metrics, has_javalang)
    THEN [total_classes |-> metrics.total_classes,
          total_controllers |-> metrics.total_controllers,
          total_services |-> metrics.total_services,
          total_business_methods |-> metrics.total_business_methods,
          avg_per_controller |-> metrics.avg_business_methods_per_controller,
          avg_per_service |-> metrics.avg_business_methods_per_service,
          controllers |-> metrics.controllers,
          services |-> metrics.services]
    ELSE [total_classes |-> 0, total_controllers |-> 0, total_services |-> 0,
          total_business_methods |-> 0, avg_per_controller |-> [num |-> 0, den |-> 1],
          avg_per_service |-> [num |-> 0, den |-> 1], controllers |-> <<>>,
          services |-> <<>>]

\* Lines 678-717
MarkdownRules(metrics, has_javalang) ==
    IF RulesAvailable(metrics, has_javalang)
    THEN [total_classes |-> metrics.total_classes,
          total_controllers |-> metrics.total_controllers,
          total_services |-> metrics.total_services,
          total_business_methods |-> metrics.total_business_methods,
          avg_per_controller |-> metrics.avg_business_methods_per_controller,
          avg_per_service |-> metrics.avg_business_methods_per_service,
          controllers |-> metrics.controllers,
          services |-> metrics.services]
    ELSE NOT_AVAILABLE

\* Lines 550-606
ExcelRules(metrics, has_javalang) ==
    IF RulesAvailable(metrics, has_javalang)
    THEN [rows |-> metrics.all_metrics,
          total_classes |-> metrics.total_classes,
          total_controllers |-> metrics.total_controllers,
          total_services |-> metrics.total_services,
          total_business_methods |-> metrics.total_business_methods,
          avg_per_controller |-> metrics.avg_business_methods_per_controller,
          avg_per_service |-> metrics.avg_business_methods_per_service]
    ELSE NOT_AVAILABLE

\* Lines 1225-1312
HtmlRules(metrics, has_javalang) ==
    IF RulesAvailable(metrics, has_javalang)
    THEN [total_classes |-> metrics.total_classes,
          total_controllers |-> metrics.total_controllers,
          total_services |-> metrics.total_services,
          avg_per_service |-> metrics.avg_business_methods_per_service,
          controllers |-> metrics.controllers,
          services |-> metrics.services]
    ELSE NOT_AVAILABLE

\* len(d) of a dict
DictLen(d) == Cardinality(DOMAIN d)

\* Mutant: the html summary counts the business methods of the controllers.
GetTotalBusinessMethods_Controllers(metrics) ==
    IF metrics = EmptyDict THEN 0 ELSE SumBusinessMethods(metrics.controllers)

\* business_rules_metrics.get(key, 0) for the key total_business_methods
GetTotalBusinessMethods(metrics) ==
    IF metrics = EmptyDict THEN 0 ELSE metrics.total_business_methods

\* Lines 639-722
MarkdownReport ==
    [built |-> TRUE,
     entity_count |-> DictLen(entity_classes), entities |-> entity_classes,
     component_count |-> DictLen(business_components), components |-> business_components,
     page_count |-> Len(jsf_pages), pages |-> jsf_pages,
     db |-> db_info_placeholder,
     rules |-> MarkdownRules(business_rules_metrics, HAS_JAVALANG),
     log |-> analysis_log]

\* Lines 415-624: the six sheets.
ExcelBook ==
    [built |-> TRUE,
     entity_count |-> DictLen(entity_classes), entities |-> entity_classes,
     component_count |-> DictLen(business_components), components |-> business_components,
     page_count |-> Len(jsf_pages), pages |-> jsf_pages,
     rules |-> ExcelRules(business_rules_metrics, HAS_JAVALANG),
     log |-> analysis_log]

\* Lines 735-1333
HtmlReport ==
    [built |-> TRUE,
     entity_count |-> DictLen(entity_classes), entities |-> entity_classes,
     component_count |-> DictLen(business_components), components |-> business_components,
     page_count |-> Len(jsf_pages), pages |-> jsf_pages,
     total_business_methods |-> GetTotalBusinessMethods(business_rules_metrics),
     rules |-> HtmlRules(business_rules_metrics, HAS_JAVALANG),
     log |-> analysis_log]

Printed(entry) == [entry |-> entry, value |-> 0]
Counted(entry, value) == [entry |-> entry, value |-> value]

\* Mutant: generating a report adds a line to the log.
ReportFrame_LogTouched ==
    /\ analysis_log' = Append(analysis_log, [entry |-> "Relatorio", path |-> 0])
    /\ UNCHANGED <<main_vars, HAS_JAVALANG, HAS_OPENPYXL, tree, classifier_vars, pass_vars,
                   metrics_vars, db_vars>>

ReportFrame ==
    UNCHANGED <<main_vars, HAS_JAVALANG, HAS_OPENPYXL, tree, classifier_vars, pass_vars, analysis_log,
                metrics_vars, db_vars>>

\* Line 1405: generate_markdown_report builds the text.
GenerateMarkdown ==
    /\ phase = "done"
    /\ report_content' = MarkdownReport
    /\ phase' = "markdown"
    /\ ReportFrame
    /\ UNCHANGED <<excel_filename, workbook, md_file, html_file, console>>

\* Lines 393-395: openpyxl is absent.
ExcelUnavailable ==
    /\ phase = "markdown"
    /\ ~HAS_OPENPYXL
    /\ console' = Append(console, Printed("openpyxl nao esta instalado. Pulando Excel."))
    /\ excel_filename' = "None"
    /\ phase' = "excel"
    /\ ReportFrame
    /\ UNCHANGED <<report_content, workbook, md_file, html_file>>

\* Lines 397-628: the workbook is built and saved.
ExcelSaved ==
    /\ phase = "markdown"
    /\ HAS_OPENPYXL
    /\ workbook' = [written |-> TRUE, content |-> ExcelBook]
    /\ excel_filename' = "rnc.xlsx"
    /\ phase' = "excel"
    /\ ReportFrame
    /\ UNCHANGED <<report_content, md_file, html_file, console>>

\* Mutant: a fault of the workbook ends the run.
ExcelRaises_Propagates ==
    /\ phase = "markdown"
    /\ HAS_OPENPYXL
    /\ phase' = "exit"
    /\ ReportFrame
    /\ UNCHANGED <<report_content, excel_filename, workbook, md_file, html_file, console>>

\* Lines 397-632: building or saving the workbook raises; the except returns None.
ExcelRaises ==
    /\ phase = "markdown"
    /\ HAS_OPENPYXL
    /\ console' = Append(console, Printed("Erro ao gerar relatorio Excel"))
    /\ excel_filename' = "None"
    /\ phase' = "excel"
    /\ ReportFrame
    /\ UNCHANGED <<report_content, workbook, md_file, html_file>>

\* Lines 1345-1353: the markdown file is written, or the write raises.
SaveMarkdown ==
    /\ phase = "excel"
    /\ \E write_ok \in BOOLEAN :
           /\ md_file' = IF write_ok
                          THEN [written |-> TRUE, content |-> report_content]
                          ELSE md_file
           /\ console' =
                  Append(console,
                         IF write_ok THEN Printed("Relatorio Markdown salvo")
                         ELSE Printed("Erro ao salvar o arquivo Markdown"))
                  \o (IF excel_filename # "None"
                      THEN <<Printed("Relatorio Excel salvo")>> ELSE <<>>)
    /\ phase' = "saved"
    /\ ReportFrame
    /\ UNCHANGED <<report_content, excel_filename, workbook, html_file>>

\* Lines 1356-1359 and 726-1341: the html is built and written, or the write raises.
SaveHtml ==
    /\ phase = "saved"
    /\ \E write_ok \in BOOLEAN :
           /\ html_file' = IF write_ok
                            THEN [written |-> TRUE, content |-> HtmlReport]
                            ELSE html_file
           /\ console' =
                  Append(console,
                         IF write_ok THEN Printed("Relatorio HTML salvo")
                         ELSE Printed("Erro ao gerar relatorio HTML"))
    /\ phase' = "html"
    /\ ReportFrame
    /\ UNCHANGED <<report_content, excel_filename, workbook, md_file>>

\* Line 1368
found_db == IF db_info_placeholder.head = DB_FOUND_HEADER THEN "Sim" ELSE "Nao"

\* Lines 1361-1372: the summary on the terminal.
DisplaySummary ==
    /\ phase = "html"
    /\ console' =
           console
           \o <<Counted("Total de Entidades", DictLen(entity_classes)),
                Counted("Total de Componentes de Negocio/Controladoras",
                        DictLen(business_components)),
                Counted("Total de Paginas JSF", Len(jsf_pages)),
                Printed("Informacoes de DB Encontradas: " \o found_db)>>
    /\ phase' = "exit"
    /\ ReportFrame
    /\ UNCHANGED <<report_content, excel_filename, workbook, md_file, html_file>>

(***************************************************************************)
(* The whole run from line 1402: run_analysis, then the reports.           *)
(***************************************************************************)
WithContent(f, content) == [f EXCEPT !.content = content]

RunFiles ==
    {WithContent(Source(<<T_OrderController, T_OrderService>>), {"@Controller"}),
     WithContent(Source(<<T_ReportServiceImpl>>), {"@Service"}),
     WithContent(Source(<<T_OrderRepository>>), {"@Entity", "@Named"}),
     WithContent([Source(<<>>) EXCEPT !.parses = FALSE], {"@Named"}),
     File(JAVA_FILE_EXT, FALSE, {"@Entity"}),
     File(".xhtml", TRUE, {}),
     File(".properties", TRUE, {"spring.datasource.url"}),
     File(".xml", FALSE, {"hibernate.dialect"})}

InitRun ==
    /\ HAS_JAVALANG \in BOOLEAN
    /\ HAS_OPENPYXL \in BOOLEAN
    /\ \E n \in 0..MaxFiles : tree \in [1..n -> RunFiles]
    /\ method_node = AbstractNode(Name_save)
    /\ verdict = "pending"
    /\ tree_outcome = "skipped"
    /\ text_outcome = "skipped"
    /\ phase = "database"
    /\ walk_pos = 1
    /\ entity_classes = EmptyDict
    /\ business_components = EmptyDict
    /\ jsf_pages = <<>>
    /\ analysis_log = StartLog
    /\ MetricsIdle
    /\ DatabaseIdle
    /\ ReportsIdle
    /\ MainIdle

NextRun ==
    \/ NextDatabase
    \/ NextClassification
    \/ NextMetrics
    \/ GenerateMarkdown
    \/ ExcelUnavailable
    \/ ExcelSaved
    \/ ExcelRaises
    \/ SaveMarkdown
    \/ SaveHtml
    \/ DisplaySummary

SpecRun == InitRun /\ [][NextRun]_vars

(***************************************************************************)
(* The script, lines 1375-1408, run on a project tree and run again on the *)
(* tree it has left.  The output folder has a place of its own in the      *)
(* traversal; it holds the three reports once they are written.            *)
(***************************************************************************)
ERROR_CODE_MISSING_PROJECT == 2

Artifact(ext, readable, content) == [File(ext, readable, content) EXCEPT !.in_output = TRUE]

\* The markdown and the html quote the annotations they look for (lines 646,
\* 656, 1140, 1168); the workbook is not text.
OutputFolder ==
    <<Artifact(".md", TRUE, {"@Entity", "@Named"}),
      Artifact(".xlsx", FALSE, {}),
      Artifact(".html", TRUE, {"@Entity", "@Named"})>>

\* The analysis state of a fresh process: the module-level values of lines 62-68.
FreshProcess ==
    /\ method_node = AbstractNode(Name_save)
    /\ verdict = "pending"
    /\ tree_outcome = "skipped"
    /\ text_outcome = "skipped"
    /\ phase = "start"
    /\ walk_pos = 1
    /\ entity_classes = EmptyDict
    /\ business_components = EmptyDict
    /\ jsf_pages = <<>>
    /\ analysis_log = <<>>
    /\ MetricsIdle
    /\ DatabaseIdle

InitMain ==
    /\ HAS_JAVALANG \in BOOLEAN
    /\ HAS_OPENPYXL \in BOOLEAN
    /\ argv \in {"none", "missing", "file", "directory"}
    /\ IF argv \in {"directory", "none"}
       THEN \E n \in 0..MaxProject : \E files \in [1..n -> RunFiles] : \E k \in 0..n :
                tree = SubSeq(files, 1, k) \o OutputFolder \o SubSeq(files, k + 1, n)
       ELSE tree = <<>>
    /\ IF argv = "directory" THEN output_folder \in BOOLEAN ELSE output_folder = FALSE
    /\ FreshProcess
    /\ ReportsIdle
    /\ exit_status = 0
    /\ run = 1
    /\ first_report = NoReport

MainFrame ==
    UNCHANGED <<HAS_JAVALANG, HAS_OPENPYXL, tree, classifier_vars, pass_vars, metrics_vars,
                db_vars, argv, run, first_report, report_content, excel_filename, workbook,
                md_file, html_file>>

\* Lines 1379-1389: no argument.
ExitMissingArgument ==
    /\ phase = "start"
    /\ argv = "none"
    /\ console' = Append(console, Printed("Erro: Pasta do projeto nao informada."))
    /\ exit_status' = ERROR_CODE_MISSING_PROJECT
    /\ phase' = "exit"
    /\ MainFrame
    /\ UNCHANGED <<analysis_log, output_folder>>

\* Lines 1391-1396: the argument does not name a directory.
ExitNotADirectory ==
    /\ phase = "start"
    /\ argv \in {"missing", "file"}
    /\ console' = Append(console, Printed("ERRO: O caminho nao e um diretorio valido."))
    /\ exit_status' = 3
    /\ phase' = "exit"
    /\ MainFrame
    /\ UNCHANGED <<analysis_log, output_folder>>

\* Mutant: the output folder is made whatever the argument names.
create_output_folder_Unchecked ==
    /\ phase = "start"
    /\ output_folder' = TRUE
    /\ console' =
           IF ~output_folder
           THEN Append(console, Printed("Pasta criada com sucesso."))
           ELSE console
    /\ phase' = IF argv = "directory" THEN "created" ELSE "start"
    /\ ~output_folder \/ argv = "directory"
    /\ MainFrame
    /\ UNCHANGED <<analysis_log, exit_status>>

\* Lines 1399 and 383-389
create_output_folder ==
    /\ phase = "start"
    /\ argv = "directory"
    /\ output_folder' = TRUE
    /\ console' =
           IF ~output_folder
           THEN Append(console, Printed("Pasta criada com sucesso."))
           ELSE console
    /\ phase' = "created"
    /\ MainFrame
    /\ UNCHANGED <<analysis_log, exit_status>>

\* Lines 1402 and 126-131: run_analysis logs its start and calls the database pass.
BeginAnalysis ==
    /\ phase = "created"
    /\ analysis_log' = Extend(analysis_log, StartLog)
    /\ phase' = "database"
    /\ MainFrame
    /\ UNCHANGED <<console, exit_status, output_folder>>

\* os.walk of line 100 does not yield a report that was never written.
DatabaseWalkAbsent ==
    /\ phase = "database"
    /\ db_pos <= Len(tree)
    /\ ~Yielded(db_pos)
    /\ db_pos' = db_pos + 1
    /\ DatabaseFrame
    /\ UNCHANGED <<phase, db_info_list, db_info_placeholder>>

\* The same for os.walk of line 133.
WalkAbsent ==
    /\ phase = "walk"
    /\ walk_pos <= Len(tree)
    /\ ~Yielded(walk_pos)
    /\ walk_pos' = walk_pos + 1
    /\ UNCHANGED <<main_vars, HAS_JAVALANG, HAS_OPENPYXL, tree, db_vars, report_vars,
                   classifier_vars, phase, entity_classes,
                   business_components, jsf_pages, analysis_log, metrics_vars>>

\* The same for os.walk of line 340.
MetricsWalkAbsent ==
    /\ phase = "files"
    /\ file_pos <= Len(tree)
    /\ ~Yielded(file_pos)
    /\ file_pos' = file_pos + 1
    /\ MetricsFrame
    /\ UNCHANGED <<phase, analysis_log, type_pos, method_pos, method, metrics_list,
                   type_vars, list_vars, business_rules_metrics>>

\* The script is started once more on the tree the first run has left: a new
\* process with the module-level values, the same argument, the files on disk.
RunAgain ==
    /\ phase = "exit"
    /\ exit_status = 0
    /\ run = 1
    /\ run' = 2
    /\ first_report' = report_content
    /\ method_node' = AbstractNode(Name_save)
    /\ verdict' = "pending"
    /\ tree_outcome' = "skipped"
    /\ text_outcome' = "skipped"
    /\ phase' = "start"
    /\ walk_pos' = 1
    /\ entity_classes' = EmptyDict
    /\ business_components' = EmptyDict
    /\ jsf_pages' = <<>>
    /\ analysis_log' = <<>>
    /\ file_pos' = 1 /\ type_pos' = 1 /\ method_pos' = 1
    /\ method' = AbstractNode(Name_save)
    /\ metrics_list' = <<>>
    /\ public_methods' = 0 /\ business_methods' = 0 /\ business_method_names' = <<>>
    /\ all_metrics' = <<>> /\ controllers' = <<>> /\ services' = <<>>
    /\ business_rules_metrics' = EmptyDict
    /\ db_pos' = 1
    /\ db_info_list' = <<>>
    /\ db_info_placeholder' = DB_PLACEHOLDER
    /\ report_content' = NoReport
    /\ excel_filename' = "None"
    /\ console' = <<>>
    /\ UNCHANGED <<HAS_JAVALANG, HAS_OPENPYXL, tree, argv, exit_status, output_folder,
                   workbook, md_file, html_file>>

ProgramStep ==
    \/ ExitMissingArgument
    \/ ExitNotADirectory
    \/ create_output_folder
    \/ BeginAnalysis
    \/ DatabaseWalkAbsent
    \/ WalkAbsent
    \/ MetricsWalkAbsent
    \/ NextRun

NextMain == ProgramStep \/ RunAgain

\* One run of the script; a started process runs on until it has ended.
SpecScript == InitMain /\ [][ProgramStep]_vars /\ WF_vars(ProgramStep)

\* The script run, and run again.
SpecMain == InitMain /\ [][NextMain]_vars

(***************************************************************************)
(* Vocabulary of the claims about the classifier.                          *)
(***************************************************************************)
Classified == verdict # "pending"

NamedWithPrefix(name, prefix) ==
    \E n \in 0..Len(name) : [i \in 1..n |-> name[i]] = prefix

AccessorNamed(m) ==
    \/ NamedWithPrefix(m.name, <<"g", "e", "t">>)
    \/ NamedWithPrefix(m.name, <<"s", "e", "t">>)
    \/ NamedWithPrefix(m.name, <<"i", "s">>)

TopLevel(m, kinds) == {i \in 1..Len(m.body) : m.body[i].kind \in kinds}

ControlFlowOrThrow ==
    {"IfStatement", "WhileStatement", "ForStatement", "DoStatement", "SwitchStatement",
     "TryStatement", "ThrowStatement"}

LocalCount(m) == Cardinality(TopLevel(m, {"LocalVariableDeclaration"}))
ReturnCount(m) == Cardinality(TopLevel(m, {"ReturnStatement"}))
HasBody(m) == ~m.body_is_none /\ m.body # <<>>
\* The inspection obtained a body size: len(str(body)) did not raise.
Sized(m) == ~m.faults.size
\* The tree-based classification ran on a non-accessor method with a body.
TreeInspected(m) ==
    Classified /\ HAS_JAVALANG /\ ~AccessorNamed(m) /\ HasBody(m) /\ Sized(m)

\* C1: a method named get..., set... or is... is never a business-rule method,
\* whatever its body and whether or not the parser is available.
C1_AccessorNeverBusiness ==
    (Classified /\ AccessorNamed(method_node)) => verdict = "false"

C1_Witness ==
    /\ verdict = "false"
    /\ HAS_JAVALANG
    /\ NamedWithPrefix(method_node.name, <<"i", "s">>)
    /\ TopLevel(method_node, {"IfStatement"}) # {}
    /\ method_node.text.size > 1000
    /\ Len(method_node.text.lines) = 2
    /\ \A i \in 1..2 : method_node.text.lines[i] = "if ("

\* C2: a missing (None) or empty body is never a business-rule method, whatever
\* the name and whether or not the parser is available.
C2_NoBodyNeverBusiness ==
    (Classified /\ ~HasBody(method_node)) => verdict = "false"

C2_Witness ==
    /\ verdict = "false"
    /\ HAS_JAVALANG
    /\ ~method_node.body_is_none
    /\ method_node.body = <<>>
    /\ ~AccessorNamed(method_node)

\* C4 (as claimed): when the tree inspection completes without a fault, the
\* classifier's verdict is the inspection's verdict, true or false.
C4_VerdictIsTreeVerdict ==
    (Classified /\ tree_outcome \in {"true", "false"} /\ verdict # "raise")
        => verdict = tree_outcome

C8_TwoLocalsNeverBusiness ==
    (/\ Classified
     /\ HAS_JAVALANG
     /\ ~AccessorNamed(method_node)
     /\ HasBody(method_node)
     /\ ~method_node.faults.size /\ ~method_node.faults.text
     /\ LocalCount(method_node) = 2
     /\ ReturnCount(method_node) = 1
     /\ TopLevel(method_node, ControlFlowOrThrow) = {}
     /\ method_node.text.size <= 500) => verdict = "false"

\* A line holding only a comment, of either Java form.
CommentOnlyLine(line) == line \in {"// if late", "/* if late */"}
CodeLineCount(text) ==
    Cardinality({i \in 1..Len(text.lines) :
                    text.lines[i] # "" /\ ~CommentOnlyLine(text.lines[i])})
SomePatternMatches(text) ==
    \E k \in 1..Len(business_patterns) : re_search_body(business_patterns[k], text.lines)

\* C9 (as claimed): on the text path, fewer than 2 non-blank, non-comment-only
\* lines give false even when a pattern matches; 2 or more give true iff a
\* pattern of the fixed list matches the text.
C9_TextPathRule ==
    text_outcome \in {"true", "false"} =>
        (verdict = "true" <=>
            CodeLineCount(method_node.text) >= 2 /\ SomePatternMatches(method_node.text))

\* C10 (as claimed): a fault raised while inspecting the parsed tree never leaves
\* is_business_rule_method: the classifier returns the text verdict.
C10_TreeFaultNeverPropagates ==
    (Classified /\ tree_outcome = "fault") => verdict \in {"true", "false"}

(***************************************************************************)
(* Vocabulary of the claims about the classification pass.                 *)
(***************************************************************************)
Walked == 1..(walk_pos - 1)
ReadableJava(f) == f.ext = ".java" /\ f.readable
MatchesEntity(f) == f.content \cap {"@Entity", "@Table"} # {}
MatchesBusiness(f) ==
    f.content \cap {"@Named", "@Controller", "@Service", "@RestController",
                    "@ManagedBean", "extends BaseController"} # {}

\* C3: a readable .java file is in entity_classes iff an entity pattern matches
\* it, and in business_components iff no entity pattern and some business
\* pattern matches it; the two dicts never share a key.
C3_EntityPrecedence ==
    /\ DOMAIN entity_classes \cap DOMAIN business_components = {}
    /\ DOMAIN entity_classes \cup DOMAIN business_components \subseteq Walked
    /\ \A i \in Walked :
        ReadableJava(tree[i]) =>
            /\ i \in DOMAIN entity_classes <=> MatchesEntity(tree[i])
            /\ i \in DOMAIN business_components <=>
                   (~MatchesEntity(tree[i]) /\ MatchesBusiness(tree[i]))

C3_Witness ==
    /\ phase = "walked"
    /\ Len(tree) = 2
    /\ ReadableJava(tree[1]) /\ MatchesEntity(tree[1]) /\ MatchesBusiness(tree[1])
    /\ 1 \in DOMAIN entity_classes /\ 1 \notin DOMAIN business_components
    /\ ReadableJava(tree[2]) /\ tree[2].content = {"@EntityListeners"}
    /\ 2 \notin DOMAIN entity_classes /\ 2 \notin DOMAIN business_components

(***************************************************************************)
(* Vocabulary of the claims about the metrics pass.                        *)
(***************************************************************************)
\* The step took one method of the current type through lines 291-299.
MethodVisited == phase = "methods" /\ method_pos' = method_pos + 1

ThreeLocalsOneReturn(m) ==
    /\ LocalCount(m) = 3
    /\ ReturnCount(m) = 1
    /\ TopLevel(m, ControlFlowOrThrow) = {}
    /\ m.text.size <= 1000

\* C7: with the parser available, a public non-accessor method with three
\* locals, one return, no control flow and a body of at most 1000 characters is
\* classified true, and so is every method the tree inspection answers true
\* for: the class's business-method count goes up by one and the method's name
\* is appended to business_method_names.
C7_TreeVerdictIsCounted ==
    [][(/\ MethodVisited
        /\ HAS_JAVALANG
        /\ "public" \in method'.modifiers
        /\ ~AccessorNamed(method') /\ HasBody(method') /\ Sized(method')
        /\ \/ ThreeLocalsOneReturn(method')
           \/ has_business_logic_outcome(method') = "true")
       => /\ is_business_rule_method(method', HAS_JAVALANG) = "true"
          /\ business_methods' = business_methods + 1
          /\ business_method_names' = Append(business_method_names, method'.name)]_vars

C7_Witness ==
    /\ phase = "methods"
    /\ method_pos = 5
    /\ "public" \in method.modifiers
    /\ ThreeLocalsOneReturn(method)
    /\ method.text.size = 1000
    /\ business_methods = 2
    /\ business_method_names = <<Name_computeTotals, Name_save>>

(***************************************************************************)
(* Vocabulary of the claims about the records and the aggregate.           *)
(***************************************************************************)
RecordsOf(list) == {list[i] : i \in DOMAIN list}
AllRecords ==
    RecordsOf(metrics_list) \cup RecordsOf(all_metrics) \cup RecordsOf(controllers)
    \cup RecordsOf(services)
RoleLabels == {"Controller", "Service", "Repository", "Implementation", "Class"}
HasWord(name, word) == \E i \in DOMAIN name : name[i] = word
PublicCount(type) ==
    Cardinality({i \in DOMAIN type.methods : "public" \in type.methods[i].modifiers})
\* analyze_business_rules has returned and run_analysis has stored its result.
Aggregated == phase = "done" /\ HAS_JAVALANG
WithRole(label) ==
    SelectSeq(business_rules_metrics.all_metrics, LAMBDA r : r.controller_type = label)

\* C11: the role label of a record follows the class name with the precedence
\* Controller > Service > Repository > Implementation > generic, and a record
\* carries exactly one of the five labels.
C11_RolePrecedence ==
    \A r \in AllRecords :
        /\ r.controller_type \in RoleLabels
        /\ HasWord(r.class_name, "Controller") => r.controller_type = "Controller"
        /\ (~HasWord(r.class_name, "Controller") /\ HasWord(r.class_name, "Service"))
               => r.controller_type = "Service"
        /\ (/\ ~HasWord(r.class_name, "Controller")
            /\ ~HasWord(r.class_name, "Service")
            /\ HasWord(r.class_name, "Repository")) => r.controller_type = "Repository"
        /\ (/\ ~HasWord(r.class_name, "Controller")
            /\ ~HasWord(r.class_name, "Service")
            /\ ~HasWord(r.class_name, "Repository")
            /\ HasWord(r.class_name, "Impl")) => r.controller_type = "Implementation"
        /\ (\A w \in {"Controller", "Service", "Repository", "Impl"} :
                ~HasWord(r.class_name, w)) => r.controller_type = "Class"

C11_Witness ==
    /\ Aggregated
    /\ Len(all_metrics) = 1
    /\ all_metrics[1].class_name = <<"Impl", "Service", "Controller">>
    /\ all_metrics[1].controller_type = "Controller"

\* C12: every record has at least one public method and is the record of a
\* declared type of its file with that many public methods, so a type without
\* public methods is in none of the lists and in none of the totals.
C12_RecordsHavePublicMethods ==
    /\ \A r \in AllRecords :
           /\ r.public_methods >= 1
           /\ \E k \in DOMAIN tree[r.file_path].types :
                  /\ tree[r.file_path].types[k].name = r.class_name
                  /\ PublicCount(tree[r.file_path].types[k]) = r.public_methods
    /\ Aggregated =>
           /\ \A r \in RecordsOf(business_rules_metrics.all_metrics) : r.public_methods >= 1
           /\ business_rules_metrics.total_classes = Len(all_metrics)

C12_Witness ==
    /\ Aggregated
    /\ tree = <<Source(<<T_Helper, T_OrderController>>)>>
    /\ business_rules_metrics.total_classes = 1
    /\ all_metrics[1].class_name = <<"Order", "Controller">>

\* C13: the aggregation never divides by zero: the average of a role without
\* classes is 0, and the average of a role with classes is the sum of their
\* business_methods divided by their number.
C13_AveragesAreGuarded ==
    Aggregated =>
        \A role \in {"Controller", "Service"} :
            LET avg == IF role = "Controller"
                       THEN business_rules_metrics.avg_business_methods_per_controller
                       ELSE business_rules_metrics.avg_business_methods_per_service
                subset == WithRole(role)
            IN /\ avg.den # 0
               /\ subset = <<>> => avg.num = 0
               /\ subset # <<>> =>
                      avg.num * Len(subset) = SumBusinessMethods(subset) * avg.den

C13_Witness ==
    /\ Aggregated
    /\ WithRole("Controller") = <<>>
    /\ business_rules_metrics.avg_business_methods_per_controller.num = 0
    /\ Len(WithRole("Service")) = 2
    /\ business_rules_metrics.avg_business_methods_per_service = [num |-> 4, den |-> 2]

\* C14: total_classes is the number of records; controllers and services are
\* the records of role Controller and of role Service, disjoint; the totals are
\* the lengths of the lists; total_business_methods sums over every record.
C14_AggregateIsConsistent ==
    Aggregated =>
        LET m == business_rules_metrics
        IN /\ m.total_classes = Len(m.all_metrics)
           /\ m.controllers = WithRole("Controller")
           /\ m.services = WithRole("Service")
           /\ RecordsOf(m.controllers) \cap RecordsOf(m.services) = {}
           /\ m.total_controllers = Len(m.controllers)
           /\ m.total_services = Len(m.services)
           /\ m.total_controllers + m.total_services <= m.total_classes
           /\ m.total_business_methods = SumBusinessMethods(m.all_metrics)

C14_Witness ==
    /\ Aggregated
    /\ business_rules_metrics.total_controllers = 1
    /\ business_rules_metrics.total_services = 1
    /\ business_rules_metrics.total_classes = 3
    /\ business_rules_metrics.total_business_methods
           > SumBusinessMethods(controllers) + SumBusinessMethods(services)

\* The file is a Java source javalang parses, and no method of it makes the
\* classifier raise.
JavaSource(f) == f.ext = JAVA_FILE_EXT /\ f.readable /\ ~f.blank
AnalysedWithoutFault(f) ==
    /\ JavaSource(f) /\ f.parses
    /\ \A k \in DOMAIN f.types : \A i \in DOMAIN f.types[k].methods :
           "public" \in f.types[k].methods[i].modifiers
               => is_business_rule_method(f.types[k].methods[i], TRUE) # "raise"
RecordsOfFile(path) == {r \in RecordsOf(business_rules_metrics.all_metrics) : r.file_path = path}

UnreadableJava(path) == tree[path].ext = JAVA_FILE_EXT /\ ~tree[path].readable
ReadFaultEntry(path) == [entry |-> "ERRO ao ler", path |-> path]

C18_ReadFaultIsLoggedAndSkipped ==
    /\ [](\A path \in DOMAIN tree :
             /\ (path \in Walked /\ UnreadableJava(path)) =>
                    /\ path \notin DOMAIN entity_classes
                    /\ path \notin DOMAIN business_components
                    /\ \E i \in DOMAIN analysis_log : analysis_log[i] = ReadFaultEntry(path)
             /\ (phase = "walked" /\ ReadableJava(tree[path])) =>
                    /\ MatchesEntity(tree[path]) => path \in DOMAIN entity_classes
                    /\ (~MatchesEntity(tree[path]) /\ MatchesBusiness(tree[path]))
                           => path \in DOMAIN business_components)
    /\ [][(phase = "walk" /\ walk_pos <= Len(tree) /\ UnreadableJava(walk_pos)) =>
              /\ analysis_log' = Append(analysis_log, ReadFaultEntry(walk_pos))
              /\ entity_classes' = entity_classes
              /\ business_components' = business_components
              /\ jsf_pages' = jsf_pages
              /\ walk_pos' = walk_pos + 1
              /\ phase' = "walk"]_vars

C18_Witness ==
    /\ phase = "walked"
    /\ Len(tree) = 2
    /\ UnreadableJava(1)
    /\ DOMAIN entity_classes = {2}
    /\ \E i \in DOMAIN analysis_log : analysis_log[i] = ReadFaultEntry(1)

(***************************************************************************)
(* Vocabulary of the claims about the database hints.                      *)
(***************************************************************************)
ConfigLike(f) == f.ext \in {".properties", ".xml", ".yml", ".yaml"}
Scanned == 1..(db_pos - 1)
DatabasePassDone == phase # "database" /\ db_pos = Len(tree) + 1
MatchedCategories(f) == Len(HintInfo(f.content))
HintLinesOf(path) == {i \in DOMAIN db_info_list : db_info_list[i].path = path}

\* C15: when no configuration-like file is read with a matched category, the
\* database text after the pass is the 'not found' sentinel; after the pass the
\* text is never empty and never the value it had before the run.
C15_NotFoundSentinel ==
    DatabasePassDone =>
        /\ (\A path \in DOMAIN tree :
                ~(/\ ConfigLike(tree[path]) /\ tree[path].readable
                  /\ MatchedCategories(tree[path]) >= 1))
               => db_info_placeholder = DB_NOT_FOUND
        /\ db_info_placeholder.head # ""
        /\ db_info_placeholder # DB_PLACEHOLDER

C15_Witness ==
    /\ DatabasePassDone
    /\ Len(tree) = 2
    /\ tree[1] = File(".properties", FALSE, {"jdbc:h2:mem:test"})
    /\ tree[2] = File(".properties", TRUE, {"hibernate_dialect"})
    /\ db_info_placeholder = DB_NOT_FOUND

\* C16 (as claimed): a configuration file adds one line for each category it
\* matches, so a file matching k categories adds k lines.
C16_OneLinePerCategory ==
    \A path \in Scanned :
        (ConfigLike(tree[path]) /\ tree[path].readable)
            => Cardinality(HintLinesOf(path)) = MatchedCategories(tree[path])

\* C16 (amended): a configuration file that matches at least one category adds
\* exactly one line, which names the file, every category it matches and its
\* path; any other file adds none; the lines are the body of the text.
C16_OneLinePerFile ==
    /\ \A path \in Scanned :
           IF /\ ConfigLike(tree[path]) /\ tree[path].readable
              /\ MatchedCategories(tree[path]) >= 1
           THEN \E i \in DOMAIN db_info_list :
                    /\ HintLinesOf(path) = {i}
                    /\ db_info_list[i].file = path
                    /\ db_info_list[i].info = HintInfo(tree[path].content)
           ELSE HintLinesOf(path) = {}
    /\ \A i \in DOMAIN db_info_list : db_info_list[i].path \in Scanned
    /\ (DatabasePassDone /\ db_info_list # <<>>) =>
           db_info_placeholder = [head |-> DB_FOUND_HEADER, lines |-> db_info_list]

C16_Witness ==
    /\ DatabasePassDone
    /\ Len(tree) = 2
    /\ MatchedCategories(tree[1]) = 3
    /\ MatchedCategories(tree[2]) = 2
    /\ Len(db_info_placeholder.lines) = 2
    /\ Len(db_info_placeholder.lines[1].info) = 3

(***************************************************************************)
(* Vocabulary of the claims about the reports and the whole run.           *)
(***************************************************************************)
HasPrinted(entry) == \E i \in DOMAIN console : console[i].entry = entry
ClassificationDone == phase \notin {"database", "walk"}
\* What the three passes over the tree record, from the tree alone.
EntityPaths == {p \in DOMAIN tree : ReadableJava(tree[p]) /\ MatchesEntity(tree[p])}
BusinessPaths ==
    {p \in DOMAIN tree :
        ReadableJava(tree[p]) /\ ~MatchesEntity(tree[p]) /\ MatchesBusiness(tree[p])}
ViewPaths == {p \in DOMAIN tree : tree[p].ext \in {".xhtml", ".jsf"}}
HintPaths ==
    {p \in DOMAIN tree :
        ConfigLike(tree[p]) /\ tree[p].readable /\ MatchedCategories(tree[p]) >= 1}
Increasing(list) == \A i, j \in DOMAIN list : i < j => list[i] < list[j]
ClassificationFollowsTree ==
    /\ DOMAIN entity_classes = EntityPaths
    /\ \A p \in EntityPaths :
           entity_classes[p] = FoundPatterns(ENTITY_PATTERNS, tree[p].content)
    /\ DOMAIN business_components = BusinessPaths
    /\ \A p \in BusinessPaths :
           business_components[p] = FoundPatterns(BUSINESS_PATTERNS, tree[p].content)
    /\ RecordsOf(jsf_pages) = ViewPaths /\ Increasing(jsf_pages)
    /\ {line.path : line \in RecordsOf(db_info_placeholder.lines)} = HintPaths
    /\ Increasing([i \in DOMAIN db_info_placeholder.lines |->
                      db_info_placeholder.lines[i].path])
    /\ \A line \in RecordsOf(db_info_placeholder.lines) :
           line.info = HintInfo(tree[line.path].content)
    /\ db_info_placeholder.head = IF HintPaths = {} THEN DB_NOT_FOUND.head ELSE DB_FOUND_HEADER

\* C19: without the parser the metrics pass is skipped, business_rules_metrics
\* stays empty and the business-rule section of the markdown, the spreadsheet
\* and the html shows only the notice; with or without the parser the entity,
\* component and page results and the database text are what the tree alone
\* determines.
C19_ParserAbsent ==
    /\ ~HAS_JAVALANG =>
           /\ business_rules_metrics = EmptyDict
           /\ phase \notin {"files", "types", "methods"}
           /\ all_metrics = <<>> /\ file_pos = 1
           /\ report_content.built => report_content.rules = NOT_AVAILABLE
           /\ workbook.written => workbook.content.rules = NOT_AVAILABLE
           /\ md_file.written => md_file.content.rules = NOT_AVAILABLE
           /\ html_file.written => html_file.content.rules = NOT_AVAILABLE
    /\ ClassificationDone =>
           /\ ClassificationFollowsTree
           /\ report_content.built =>
                  /\ report_content.entities = entity_classes
                  /\ report_content.components = business_components
                  /\ report_content.pages = jsf_pages
                  /\ report_content.db = db_info_placeholder

C19_Witness ==
    /\ ~HAS_JAVALANG
    /\ phase = "exit"
    /\ Len(tree) = 2
    /\ EntityPaths # {} /\ BusinessPaths # {}
    /\ \E p \in BusinessPaths : tree[p].types # <<>>
    /\ md_file.written /\ md_file.content.rules = NOT_AVAILABLE
    /\ workbook.written /\ workbook.content.rules = NOT_AVAILABLE
    /\ html_file.written /\ html_file.content.rules = NOT_AVAILABLE
    /\ md_file.content.component_count = 1

\* C20: when openpyxl is absent or the workbook raises, the spreadsheet is
\* skipped with a warning, and the run goes on: it has completed the analysis,
\* it attempts the markdown file and the html file whatever happened to the
\* other artifacts, and a markdown file that is written holds the report.
SpreadsheetSkipped ==
    \/ HasPrinted("openpyxl nao esta instalado. Pulando Excel.")
    \/ HasPrinted("Erro ao gerar relatorio Excel")
MarkdownAttempted ==
    HasPrinted("Relatorio Markdown salvo") \/ HasPrinted("Erro ao salvar o arquivo Markdown")
HtmlAttempted ==
    HasPrinted("Relatorio HTML salvo") \/ HasPrinted("Erro ao gerar relatorio HTML")

C20_SpreadsheetIsOptional ==
    /\ phase # "exit" => ENABLED NextRun
    /\ phase \in {"excel", "saved", "html", "exit"} =>
           /\ (~HAS_OPENPYXL => SpreadsheetSkipped)
           /\ SpreadsheetSkipped <=> excel_filename = "None"
           /\ SpreadsheetSkipped => ~workbook.written
    /\ phase = "exit" =>
           /\ \E i \in DOMAIN analysis_log : analysis_log[i].entry = "Concluida"
           /\ report_content.built
           /\ MarkdownAttempted /\ HtmlAttempted
           /\ HasPrinted("Relatorio Markdown salvo") =>
                  md_file = [written |-> TRUE, content |-> report_content]
           /\ HasPrinted("Relatorio HTML salvo") => html_file.written

C20_Witness ==
    /\ phase = "exit"
    /\ HAS_OPENPYXL
    /\ HasPrinted("Erro ao gerar relatorio Excel")
    /\ ~workbook.written
    /\ md_file.written
    /\ html_file.written
    /\ Len(tree) = 2

(***************************************************************************)
(* Vocabulary of the claims about the reports of one run.                  *)
(***************************************************************************)
\* What the run has put in front of the reader: the markdown text, the
\* workbook and the html page.
ShownReports ==
    (IF report_content.built THEN {report_content} ELSE {})
    \cup (IF md_file.written THEN {md_file.content} ELSE {})
    \cup (IF workbook.written THEN {workbook.content} ELSE {})
    \cup (IF html_file.written THEN {html_file.content} ELSE {})

ShowsFigures(r) == r.rules # NOT_AVAILABLE

\* The business-method total a report shows: the html page shows it in its
\* summary cards, the other two in the business-rule section.
ShownBusinessMethods(r) ==
    IF "total_business_methods" \in DOMAIN r THEN r.total_business_methods
    ELSE r.rules.total_business_methods

ConsoleCount(label) ==
    {console[i].value : i \in {j \in 1..Len(console) : console[j].entry = label}}

\* C21: the entity, component and page counts and the aggregate business-rule
\* figures shown in the markdown report, the workbook and the html page are
\* equal to each other and to the counts of the terminal summary.
C21_CountsAgree ==
    /\ \A r \in ShownReports :
           /\ r.entity_count = DictLen(entity_classes)
           /\ r.component_count = DictLen(business_components)
           /\ r.page_count = Len(jsf_pages)
    /\ \A r, q \in ShownReports :
           (ShowsFigures(r) /\ ShowsFigures(q)) =>
               /\ r.rules.total_classes = q.rules.total_classes
               /\ r.rules.total_controllers = q.rules.total_controllers
               /\ r.rules.total_services = q.rules.total_services
               /\ ShownBusinessMethods(r) = ShownBusinessMethods(q)
    /\ phase = "exit" =>
           /\ ConsoleCount("Total de Entidades") = {DictLen(entity_classes)}
           /\ ConsoleCount("Total de Componentes de Negocio/Controladoras")
                  = {DictLen(business_components)}
           /\ ConsoleCount("Total de Paginas JSF") = {Len(jsf_pages)}

C21_Witness ==
    /\ phase = "exit"
    /\ md_file.written /\ workbook.written /\ html_file.written
    /\ ShowsFigures(md_file.content)
    /\ md_file.content.entity_count = 1
    /\ md_file.content.component_count = 1
    /\ md_file.content.rules.total_services = 1
    /\ html_file.content.total_business_methods >= 2


(***************************************************************************)
(* Vocabulary of the claims about the order and the content of the records.*)
(***************************************************************************)
\* The declared type a record was built from, and its place in its file.
TypeIndex(r) ==
    CHOOSE k \in DOMAIN tree[r.file_path].types : tree[r.file_path].types[k].name = r.class_name
TypeOf(r) == tree[r.file_path].types[TypeIndex(r)]

\* Files in traversal order, and types of one file in declaration order.
InTraversalOrder(list) ==
    \A i, j \in DOMAIN list :
        i < j =>
            \/ list[i].file_path < list[j].file_path
            \/ /\ list[i].file_path = list[j].file_path
               /\ TypeIndex(list[i]) < TypeIndex(list[j])

\* names lists methods of the type, each once, in the order of declaration.
InDeclarationOrder(names, methods) ==
    \E f \in [DOMAIN names -> DOMAIN methods] :
        /\ \A i \in DOMAIN names : methods[f[i]].name = names[i]
        /\ \A i, j \in DOMAIN names : i < j => f[i] < f[j]

\* C24: the records of all_metrics, controllers and services are in the
\* traversal order of the files and, within a file, in the declaration order of
\* its types; business_method_names lists the methods in declaration order.
C24_RecordsKeepOrder ==
    /\ InTraversalOrder(metrics_list)
    /\ InTraversalOrder(all_metrics)
    /\ InTraversalOrder(controllers)
    /\ InTraversalOrder(services)
    /\ business_rules_metrics # EmptyDict =>
           /\ business_rules_metrics.all_metrics = all_metrics
           /\ business_rules_metrics.controllers = controllers
           /\ business_rules_metrics.services = services
    /\ \A r \in AllRecords :
           InDeclarationOrder(r.business_method_names, TypeOf(r).methods)

C24_Witness ==
    /\ Aggregated
    /\ tree = <<Source(<<T_OrderService, T_OrderController>>), Source(<<T_OrderController>>)>>
    /\ Len(all_metrics) = 3
    /\ all_metrics[1].class_name = <<"Order", "Service">>
    /\ all_metrics[2].file_path = 1
    /\ all_metrics[3].file_path = 2
    /\ Len(controllers) = 2
    /\ Len(all_metrics[2].business_method_names) = 2


(***************************************************************************)
(* Vocabulary of the claims about what report generation touches.          *)
(***************************************************************************)
\* The steps of generate_markdown_report, generate_excel_report and
\* save_and_display_report start in these phases.
ReportPhases == {"done", "markdown", "excel", "saved", "html"}

AnalysisState ==
    <<entity_classes, business_components, jsf_pages, db_info_placeholder, db_info_list,
      analysis_log, business_rules_metrics, all_metrics, controllers, services>>

PassPositions == <<db_pos, walk_pos, file_pos, type_pos, method_pos, method, verdict>>

ReadOnlyStep ==
    /\ UNCHANGED AnalysisState
    /\ UNCHANGED PassPositions
    /\ phase' \in ReportPhases \cup {"exit"}

\* C25: generating the markdown, the workbook and the html and printing the
\* summary leave entity_classes, business_components, jsf_pages, the database
\* text, the analysis log and business_rules_metrics unchanged, and start no
\* further walk or classification.
C25_ReportsReadOnly == [][(phase \in ReportPhases) => ReadOnlyStep]_vars

C25_Witness ==
    /\ phase = "exit"
    /\ md_file.written /\ workbook.written /\ html_file.written
    /\ DictLen(entity_classes) = 1
    /\ db_info_placeholder.head = DB_FOUND_HEADER
    /\ business_rules_metrics # EmptyDict
    /\ md_file.content.log = analysis_log
    /\ html_file.content.log = analysis_log
    /\ Len(analysis_log) > Len(StartLog)


\* The counters of the type being visited, as a record in the making.
WellCounted(public, business, names) ==
    /\ 0 <= business
    /\ business <= public
    /\ Len(names) = business

PublicNames(type) ==
    {type.methods[i].name : i \in {j \in DOMAIN type.methods : "public" \in type.methods[j].modifiers}}

\* The step is at a method that is not public.
AtNonPublicMethod ==
    /\ phase = "methods"
    /\ method_pos <= Len(CurrentMethods)
    /\ "public" \notin CurrentMethods[method_pos].modifiers

\* The method is passed over: nothing is counted and nothing is raised.
PassedOver ==
    /\ UNCHANGED <<public_methods, business_methods, business_method_names, metrics_list>>
    /\ method_pos' = method_pos + 1
    /\ phase' = "methods"

\* C26: every record has 0 <= business_methods <= public_methods and as many
\* names in business_method_names as business_methods; only public methods are
\* counted or classified.
C26_CountsAreBounded ==
    /\ [](/\ WellCounted(public_methods, business_methods, business_method_names)
          /\ \A r \in AllRecords :
                 /\ WellCounted(r.public_methods, r.business_methods, r.business_method_names)
                 /\ r.public_methods = PublicCount(TypeOf(r))
                 /\ RecordsOf(r.business_method_names) \subseteq PublicNames(TypeOf(r)))
    /\ [][AtNonPublicMethod => PassedOver]_vars

C26_Witness ==
    /\ Aggregated
    /\ tree = <<Source(<<T_Helper, T_OrderController>>)>>
    /\ Len(all_metrics) = 1
    /\ all_metrics[1].public_methods = 3
    /\ all_metrics[1].business_methods = 2
    /\ Len(all_metrics[1].business_method_names) = 2


(***************************************************************************)
(* Vocabulary of the claim about a fault inside a file.                    *)
(***************************************************************************)
CollectedOf(path) == {r \in RecordsOf(all_metrics) : r.file_path = path}

TypesWithPublicMethods(f) == {k \in DOMAIN f.types : PublicCount(f.types[k]) >= 1}

\* A public method of the file makes the classifier raise.
FaultsInside(f) ==
    /\ JavaSource(f) /\ f.parses
    /\ \E k \in DOMAIN f.types : \E i \in DOMAIN f.types[k].methods :
           /\ "public" \in f.types[k].methods[i].modifiers
           /\ is_business_rule_method(f.types[k].methods[i], TRUE) = "raise"

\* The step is at a public method on which the classifier raises.
AtRaisingMethod ==
    /\ phase = "methods"
    /\ method_pos <= Len(CurrentMethods)
    /\ "public" \in CurrentMethods[method_pos].modifiers
    /\ is_business_rule_method(CurrentMethods[method_pos], HAS_JAVALANG) = "raise"

\* The records of the file built so far are dropped and the next file is taken.
FileDiscarded ==
    /\ metrics_list' = <<>>
    /\ UNCHANGED <<all_metrics, controllers, services>>
    /\ file_pos' = file_pos + 1

\* C27: the metrics of a source file are all-or-nothing: either every declared
\* type with a public method has a record in all_metrics or no type of the file
\* has one; a fault on any type or method discards the records already built
\* for the earlier types of that file.
C27_FileIsAllOrNothing ==
    /\ [](\A path \in DOMAIN tree :
              /\ \/ CollectedOf(path) = {}
                 \/ \A k \in TypesWithPublicMethods(tree[path]) :
                        \E r \in CollectedOf(path) : r.class_name = tree[path].types[k].name
              /\ FaultsInside(tree[path]) => CollectedOf(path) = {})
    /\ [][AtRaisingMethod => FileDiscarded]_vars

C27_Witness ==
    /\ Aggregated
    /\ tree = <<Source(<<T_OrderController, T_ReportServiceImpl>>), Source(<<T_OrderService>>)>>
    /\ CollectedOf(1) = {}
    /\ Len(all_metrics) = 1
    /\ business_rules_metrics.total_classes = 1


(***************************************************************************)
(* Vocabulary of the claims about the script as a whole.                   *)
(***************************************************************************)
Exited == phase = "exit"

\* Nothing of the analysis or of the reports has happened.
NoWorkDone ==
    /\ ~output_folder
    /\ db_pos = 1 /\ walk_pos = 1 /\ file_pos = 1
    /\ analysis_log = <<>>
    /\ entity_classes = EmptyDict /\ business_components = EmptyDict /\ jsf_pages = <<>>
    /\ db_info_placeholder = DB_PLACEHOLDER
    /\ business_rules_metrics = EmptyDict
    /\ ~report_content.built
    /\ ~md_file.written /\ ~workbook.written /\ ~html_file.written

\* The stages of the script in the order of lines 1379-1408.
Stage(p) ==
    CASE p = "start" -> 0
      [] p = "created" -> 1
      [] p = "database" -> 2
      [] p = "walk" -> 3
      [] p = "walked" -> 4
      [] p \in {"files", "types", "methods"} -> 5
      [] p = "done" -> 6
      [] p = "markdown" -> 7
      [] p = "excel" -> 8
      [] p = "saved" -> 9
      [] p = "html" -> 10
      [] p = "exit" -> 11

\* Within one process no stage is entered again and no walk goes back.
NothingRetried ==
    /\ phase # "exit"
    /\ run' = run
    /\ Stage(phase') >= Stage(phase)
    /\ db_pos' >= db_pos /\ walk_pos' >= walk_pos /\ file_pos' >= file_pos

OutputPaths == {path \in DOMAIN tree : tree[path].in_output}
PagePaths == {jsf_pages[i] : i \in DOMAIN jsf_pages}
HintedPaths == {db_info_list[i].path : i \in DOMAIN db_info_list}
MeasuredPaths == {r.file_path : r \in AllRecords}
\* The second run has got as far as p with the reports of the first run on disk.
SecondRunOverReports(p) ==
    /\ run = 2
    /\ phase = p
    /\ ~report_content.built
    /\ md_file.written /\ workbook.written /\ html_file.written

\* C28: a file is placed in at most one of entity_classes, business_components
\* and jsf_pages and is appended at most once; the .md, .xlsx and .html reports
\* of the output folder are never placed in any of the three and never
\* contribute a database hint or a metrics record.
C28_OnePlacePerFile ==
    /\ DOMAIN entity_classes \cap DOMAIN business_components = {}
    /\ DOMAIN entity_classes \cap PagePaths = {}
    /\ DOMAIN business_components \cap PagePaths = {}
    /\ \A i, j \in DOMAIN jsf_pages : jsf_pages[i] = jsf_pages[j] => i = j
    /\ OutputPaths \cap
           (DOMAIN entity_classes \cup DOMAIN business_components \cup PagePaths
            \cup HintedPaths \cup MeasuredPaths) = {}

C28_Witness ==
    /\ SecondRunOverReports("done")
    /\ HAS_JAVALANG
    /\ Cardinality(OutputPaths) = 3
    /\ DictLen(business_components) = 1
    /\ Len(all_metrics) = 2
    /\ file_pos = Len(tree) + 1

\* C23: the script run twice on an unchanged tree writes the same markdown
\* report both times, timestamps apart, although the second run finds the
\* output folder and the reports of the first run in the tree.
C23_SecondRunSameReport ==
    (run = 2 /\ report_content.built) => report_content = first_report

C23_Witness ==
    /\ run = 2
    /\ phase = "exit"
    /\ exit_status = 0
    /\ first_report.built
    /\ report_content = first_report
    /\ md_file.written /\ html_file.written /\ workbook.written
    /\ md_file.content = first_report
    /\ Len(first_report.pages) = 1
    /\ \E path \in OutputPaths : path < first_report.pages[1]

====
